---- MODULE Spec2Model ----
(***************************************************************************)
(* A model of PyNEST's high-level API (pynest/nest/hl_api.py): the layer   *)
(* that turns Create / SetStatus / GetStatus / Connect ... calls into      *)
(* pushes, command executions and pops against the SLI interpreter's       *)
(* operand stack, together with the stack_checker decorator that guards    *)
(* the balance of that stack in debug mode.                                *)
(*                                                                         *)
(* Python objects and SLI datums are records [k |-> kind, v |-> payload]:  *)
(*   none, int, float, str, lit (SLILiteral), dict, list, tuple, range.    *)
(* Floats are modelled by integers tagged "float".                         *)
(***************************************************************************)
EXTENDS Integers, Sequences, FiniteSets, TLC

VARIABLES debug, stack, netNodes, netConns, defaults, call, lastCreate, issued, netOptions

vars == <<debug, stack, netNodes, netConns, defaults, call, lastCreate, issued, netOptions>>

(***************************************************************************)
(* Bounds of the model.                                                    *)
(***************************************************************************)
MaxLen == 3
MaxNodes == 2
MaxConns == 2
MaxStack == 1

(***************************************************************************)
(* Python values.                                                          *)
(***************************************************************************)
None == [k |-> "none", v |-> 0]
I(n) == [k |-> "int", v |-> n]
F(n) == [k |-> "float", v |-> n]
S(s) == [k |-> "str", v |-> s]
Lit(s) == [k |-> "lit", v |-> s]
D(f) == [k |-> "dict", v |-> f]
L(s) == [k |-> "list", v |-> s]
T(s) == [k |-> "tuple", v |-> s]
R(s) == [k |-> "range", v |-> s]
Bool(b) == [k |-> "bool", v |-> b]

EmptyMap == [x \in {} |-> None]

\* The n-fold concatenation of a sequence (or of a string) with itself.
RECURSIVE Rep(_, _, _)
Rep(n, s, empty) == IF n <= 0 THEN empty ELSE s \o Rep(n - 1, s, empty)

\* Python exceptions: the class, the format string (by name) and the values
\* the message is formatted with.
NoExc == [k |-> "none", fmt |-> "", name |-> "", num |-> 0]
Exc(cls, fmt, name, num) == [k |-> cls, fmt |-> fmt, name |-> name, num |-> num]

\* len(x): defined for str, dict, list, tuple and range only.
PyHasLen(x) == x.k \in {"str", "dict", "list", "tuple", "range"}
PyLen(x) == IF x.k = "dict" THEN Cardinality(DOMAIN x.v) ELSE Len(x.v)

\* int * x: sequence repetition for list, tuple and str; a TypeError
\* ("unsupported operand type(s) for *") for range and dict.
PyCanMul(x) == x.k \in {"str", "list", "tuple"}
PyMul(n, x) == [k |-> x.k, v |-> Rep(n, x.v, IF x.k = "str" THEN "" ELSE <<>>)]

\* isinstance(x, types), types a set of kinds.
IsInstance(x, types) == x.k \in types

(***************************************************************************)
(* broadcast(item, length, allowed_types, name): the result is a record    *)
(* [exc, val]; val is meaningful when exc.k = "none".                      *)
(***************************************************************************)
Returned(val) == [exc |-> NoExc, val |-> val]
Raised(exc) == [exc |-> exc, val |-> None]

\* Variants of broadcast that the properties below must tell from it: one
\* that does not replicate a single value, one that lets any length pass.
broadcast_unreplicated(item, length, allowed_types, name) ==
    IF IsInstance(item, allowed_types) THEN Returned(T(<<item>>))
    ELSE IF ~PyHasLen(item) THEN Raised(Exc("TypeError", "has no len()", "", 0))
    ELSE IF PyLen(item) = 1
         THEN IF PyCanMul(item) THEN Returned(PyMul(length, item))
              ELSE Raised(Exc("TypeError", "unsupported operand type(s) for *", "", 0))
    ELSE IF PyLen(item) # length
         THEN Raised(Exc("TypeError", "'%s' must be a single value, a list with one element or a list with %i elements.", name, length))
    ELSE Returned(item)

broadcast_unchecked(item, length, allowed_types, name) ==
    IF IsInstance(item, allowed_types) THEN Returned(T(Rep(length, <<item>>, <<>>)))
    ELSE IF ~PyHasLen(item) THEN Raised(Exc("TypeError", "has no len()", "", 0))
    ELSE IF PyLen(item) = 1
         THEN IF PyCanMul(item) THEN Returned(PyMul(length, item))
              ELSE Raised(Exc("TypeError", "unsupported operand type(s) for *", "", 0))
    ELSE Returned(item)

broadcast(item, length, allowed_types, name) ==
    IF IsInstance(item, allowed_types) THEN Returned(T(Rep(length, <<item>>, <<>>)))
    ELSE IF ~PyHasLen(item) THEN Raised(Exc("TypeError", "has no len()", "", 0))
    ELSE IF PyLen(item) = 1
         THEN IF PyCanMul(item) THEN Returned(PyMul(length, item))
              ELSE Raised(Exc("TypeError", "unsupported operand type(s) for *", "", 0))
    ELSE IF PyLen(item) # length
         THEN Raised(Exc("TypeError", "'%s' must be a single value, a list with one element or a list with %i elements.", name, length))
    ELSE Returned(item)

(***************************************************************************)
(* The SLI side.  Python sequences are pushed as SLI arrays and arrays are *)
(* popped as tuples; every other datum keeps its kind.                     *)
(***************************************************************************)
A(s) == [k |-> "array", v |-> s]
C(s) == [k |-> "conn", v |-> s]

IsPySeq(x) == x.k \in {"list", "tuple", "range"}

RECURSIVE ToSLI(_)
ToSLI(x) ==
    IF IsPySeq(x) THEN A([i \in 1..Len(x.v) |-> ToSLI(x.v[i])])
    ELSE IF x.k = "dict" THEN D([key \in DOMAIN x.v |-> ToSLI(x.v[key])])
    ELSE x

RECURSIVE FromSLI(_)
FromSLI(x) ==
    IF x.k = "array" THEN T([i \in 1..Len(x.v) |-> FromSLI(x.v[i])])
    ELSE IF x.k = "conn" THEN T(x.v)
    ELSE IF x.k = "dict" THEN D([key \in DOMAIN x.v |-> FromSLI(x.v[key])])
    ELSE x

\* The machine a call runs on: the operand stack, the network, the debug
\* flag, the primitives issued so far, the pending exception, the last
\* value popped or returned and the errors the interpreter has signalled.
\* A primitive is logged with the command it runs (sr) or the value it is
\* given (sps, pcd).
Prim(p, c) == [p |-> p, c |-> c, x |-> None]
Given(p, x) == [p |-> p, c |-> "", x |-> x]

Failed(m) == m.exc.k # "none"
Raise(m, exc) == [m EXCEPT !.exc = exc, !.val = None]
Return(m, val) == IF Failed(m) THEN m ELSE [m EXCEPT !.val = val]
SliError(m, stk, errorname, cmd) ==
    [m EXCEPT !.stk = stk, !.exc = Exc("NESTError", errorname, cmd, 0), !.val = None,
              !.sig = Append(@, Exc("NESTError", errorname, cmd, 0))]

Depth(stk) == Len(stk)
Top(stk, i) == stk[Len(stk) - i]
Drop(stk, n) == SubSeq(stk, 1, Len(stk) - n)

\* sps(x): push one value.
sps(m, x) ==
    IF Failed(m) THEN m
    ELSE [m EXCEPT !.stk = Append(@, ToSLI(x)), !.log = Append(@, Given("sps", x))]

\* spp(): pop the top value into m.val.
spp(m) ==
    IF Failed(m) THEN m
    ELSE IF Depth(m.stk) = 0
         THEN [Raise(m, Exc("NESTError", "StackUnderflow", "spp", 0))
                  EXCEPT !.log = Append(@, Prim("spp", ""))]
    ELSE [m EXCEPT !.stk = Drop(@, 1), !.val = FromSLI(Top(m.stk, 0)),
                   !.log = Append(@, Prim("spp", ""))]

(***************************************************************************)
(* The interpreter's commands, as far as the API uses them.  A command     *)
(* checks the operands on top of the stack, consumes them and pushes its   *)
(* results; a command that fails leaves its operands where they are and    *)
(* raises a NESTError named after the SLI error.                           *)
(***************************************************************************)
NodeModels == {"iaf_neuron", "voltmeter"}
StatusKeys == {"V_m"}
SynKeys == {"weight", "delay"}
SynModel == "static_synapse"

\* The commands that keep options, and the options each of them keeps.
OptionCommands == {"RandomConvergentConnect", "RandomDivergentConnect"}
OptionKeys == {"allow_autapses", "allow_multapses"}
DefaultOptions == [key \in OptionKeys |-> Bool(TRUE)]

IsStatusDict(d, keys) ==
    /\ d.k = "dict"
    /\ DOMAIN d.v \subseteq keys
    /\ \A key \in DOMAIN d.v : d.v[key].k = "float"

\* f overridden by g where g is defined.
Override(f, g) == [key \in DOMAIN f |-> IF key \in DOMAIN g THEN g[key] ELSE f[key]]

IsGid(m, g) == g.k = "int" /\ g.v \in 1..Len(m.nodes)

Exch(stk) == Drop(stk, 2) \o <<Top(stk, 0), Top(stk, 1)>>
\* a b c  3 1 roll  ->  c a b
Roll31(stk) == Drop(stk, 3) \o <<Top(stk, 0), Top(stk, 2), Top(stk, 1)>>

\* Create_l_i and Create_l_i_D on the operands model n [dict]: n nodes of
\* the model, numbered after the existing ones; the id of the last one is
\* pushed.
SliCreateNodes(m, rest, model, n, over, cmd) ==
    IF model \notin NodeModels THEN SliError(m, m.stk, "UnknownModelName", cmd)
    ELSE IF n < 1 THEN SliError(m, m.stk, "RangeCheck", cmd)
    ELSE IF ~IsStatusDict(D(over), StatusKeys)
         THEN SliError(m, m.stk, "UnaccessedDictionaryEntry", cmd)
    ELSE [m EXCEPT !.nodes = @ \o [i \in 1..n |->
                                     [model |-> model,
                                      status |-> Override(m.defaults[model], over)]],
                   !.stk = Append(rest, I(Len(m.nodes) + n))]

SliCreate(m, cmd) ==
    IF /\ Depth(m.stk) >= 3
       /\ Top(m.stk, 0).k = "dict" /\ Top(m.stk, 1).k = "int" /\ Top(m.stk, 2).k = "lit"
    THEN SliCreateNodes(m, Drop(m.stk, 3), Top(m.stk, 2).v, Top(m.stk, 1).v,
                        Top(m.stk, 0).v, cmd)
    ELSE IF Depth(m.stk) >= 2 /\ Top(m.stk, 0).k = "int" /\ Top(m.stk, 1).k = "lit"
    THEN SliCreateNodes(m, Drop(m.stk, 2), Top(m.stk, 1).v, Top(m.stk, 0).v, EmptyMap, cmd)
    ELSE SliError(m, m.stk, "ArgumentType", cmd)

\* The connection a connection datum names: by source, thread, synapse
\* model and port (0 when there is none).
ConnHits(m, c) ==
    {i \in 1..Len(m.conns) :
        /\ m.conns[i].source = c.v[1].v
        /\ m.conns[i].thread = c.v[3].v
        /\ m.conns[i].syn = c.v[4].v
        /\ m.conns[i].port = c.v[5].v}

ConnIndex(m, c) == IF ConnHits(m, c) = {} THEN 0 ELSE CHOOSE i \in ConnHits(m, c) : TRUE

\* SetStatus of one connection, the i-th.
SliSetConnStatus(m, i, dict) ==
    IF i = 0 THEN [err |-> "UnknownSynapse", nodes |-> m.nodes, conns |-> m.conns]
    ELSE IF ~IsStatusDict(dict, SynKeys)
         THEN [err |-> "UnaccessedDictionaryEntry", nodes |-> m.nodes, conns |-> m.conns]
    ELSE [err |-> "", nodes |-> m.nodes,
          conns |-> [m.conns EXCEPT ![i] =
                       [@ EXCEPT !.weight = IF "weight" \in DOMAIN dict.v
                                            THEN dict.v["weight"].v ELSE @,
                                 !.delay = IF "delay" \in DOMAIN dict.v
                                           THEN dict.v["delay"].v ELSE @]]]

\* SetStatus of one node or one connection: [err, nodes, conns].
SliSetStatus1(m, target, dict) ==
    IF target.k = "int"
    THEN IF ~IsGid(m, target)
         THEN [err |-> "UnknownNode", nodes |-> m.nodes, conns |-> m.conns]
         ELSE IF ~IsStatusDict(dict, StatusKeys)
              THEN [err |-> "UnaccessedDictionaryEntry", nodes |-> m.nodes, conns |-> m.conns]
         ELSE [err |-> "", conns |-> m.conns,
               nodes |-> [m.nodes EXCEPT ![target.v].status = Override(@, dict.v)]]
    ELSE IF target.k = "conn" THEN SliSetConnStatus(m, ConnIndex(m, target), dict)
    ELSE [err |-> "ArgumentType", nodes |-> m.nodes, conns |-> m.conns]

\* Transpose { arrayload pop SetStatus } forall, from the i-th pair on; r is
\* what SetStatus made of the i-th pair.
RECURSIVE SliSetStatusForall(_, _, _, _, _, _)
SliSetStatusStep(m, stk, targets, dicts, i, cmd, r) ==
    IF r.err # "" THEN SliError(m, stk \o <<targets[i], dicts[i]>>, r.err, cmd)
    ELSE SliSetStatusForall([m EXCEPT !.nodes = r.nodes, !.conns = r.conns],
                            stk, targets, dicts, i + 1, cmd)

SliSetStatusForall(m, stk, targets, dicts, i, cmd) ==
    IF i > Len(targets) THEN [m EXCEPT !.stk = stk]
    ELSE SliSetStatusStep(m, stk, targets, dicts, i, cmd,
                          SliSetStatus1(m, targets[i], dicts[i]))

SliTransposeSetStatus(m, cmd) ==
    IF /\ Depth(m.stk) >= 1
       /\ Top(m.stk, 0).k = "array"
       /\ Len(Top(m.stk, 0).v) = 2
       /\ Top(m.stk, 0).v[1].k = "array"
       /\ Top(m.stk, 0).v[2].k = "array"
       /\ Len(Top(m.stk, 0).v[1].v) = Len(Top(m.stk, 0).v[2].v)
    THEN SliSetStatusForall(m, Drop(m.stk, 1), Top(m.stk, 0).v[1].v, Top(m.stk, 0).v[2].v,
                            1, cmd)
    ELSE SliError(m, m.stk, "ArgumentType", cmd)

\* 2 arraystore: the two topmost values become one array.
SliArraystore2(m, cmd) ==
    IF Depth(m.stk) < 2 THEN SliError(m, m.stk, "StackUnderflow", cmd)
    ELSE [m EXCEPT !.stk = Append(Drop(@, 2), A(<<Top(m.stk, 1), Top(m.stk, 0)>>))]

\* GetStatus of one connection, the i-th.
SliGetConnStatus(m, i) ==
    IF i = 0 THEN [err |-> "UnknownSynapse", val |-> None]
    ELSE [err |-> "", val |-> D([source |-> I(m.conns[i].source),
                                 target |-> I(m.conns[i].target),
                                 weight |-> F(m.conns[i].weight),
                                 delay |-> F(m.conns[i].delay)])]

\* GetStatus of one node or one connection: [err, val].
SliGetStatus1(m, target) ==
    IF target.k = "int"
    THEN IF ~IsGid(m, target) THEN [err |-> "UnknownNode", val |-> None]
         ELSE [err |-> "", val |-> D(m.nodes[target.v].status)]
    ELSE IF target.k = "conn" THEN SliGetConnStatus(m, ConnIndex(m, target))
    ELSE [err |-> "ArgumentType", val |-> None]

\* What the three GetStatus commands make of the status r of one target:
\* the whole dictionary, one entry, or the entries of a list of keys, in
\* its order.
SliGetEntry(r, mode, keys) ==
    IF r.err # "" THEN r
    ELSE IF mode = "all" THEN r
    ELSE IF mode = "one"
         THEN IF keys[1] \in DOMAIN r.val.v
              THEN [err |-> "", val |-> r.val.v[keys[1]]]
              ELSE [err |-> "UndefinedName", val |-> None]
    ELSE IF \A i \in 1..Len(keys) : keys[i] \in DOMAIN r.val.v
         THEN [err |-> "", val |-> A([i \in 1..Len(keys) |-> r.val.v[keys[i]]])]
         ELSE [err |-> "UndefinedName", val |-> None]

\* { GetStatus ... } Map over the array on top of the stack; res is what
\* the procedure makes of each element, bad the elements it fails on.  The
\* first of them stays on the stack.
SliMapResult(m, top, res, bad, cmd) ==
    IF bad = {} THEN [m EXCEPT !.stk = Append(Drop(@, 1), A([i \in 1..Len(res) |-> res[i].val]))]
    ELSE LET first == CHOOSE i \in bad : \A j \in bad : i <= j
         IN  SliError(m, Append(Drop(m.stk, 1), top.v[first]), res[first].err, cmd)

SliMapOver(m, top, res, cmd) ==
    SliMapResult(m, top, res, {i \in 1..Len(res) : res[i].err # ""}, cmd)

SliGetStatusMap(m, mode, keys, cmd) ==
    IF Depth(m.stk) >= 1 /\ Top(m.stk, 0).k = "array"
    THEN SliMapOver(m, Top(m.stk, 0),
                    [i \in 1..Len(Top(m.stk, 0).v) |->
                        SliGetEntry(SliGetStatus1(m, Top(m.stk, 0).v[i]), mode, keys)], cmd)
    ELSE SliError(m, m.stk, "ArgumentType", cmd)

\* One new connection: [err, conns].  The port of a connection is its rank
\* among the connections of its source.
SliAddConn(m, s, t, w, d) ==
    IF ~(IsGid(m, s) /\ IsGid(m, t)) THEN [err |-> "UnknownNode", conns |-> m.conns]
    ELSE IF m.nodes[t.v].model = "voltmeter"
         THEN [err |-> "IllegalConnection", conns |-> m.conns]
    ELSE [err |-> "",
          conns |-> Append(m.conns,
                      [source |-> s.v, target |-> t.v, thread |-> 0, syn |-> 0,
                       port |-> Cardinality({i \in 1..Len(m.conns) : m.conns[i].source = s.v}),
                       weight |-> w, delay |-> d])]

\* The connections of a command, made one after the other: items is a
\* sequence of <<source, target, weight, delay>>, r what became of the i-th.
\* A command that fails leaves its operands, the connections it has made
\* stay.
RECURSIVE SliAddConns(_, _, _, _, _)
SliAddConnsStep(m, stk, items, i, cmd, r) ==
    IF r.err # "" THEN SliError(m, m.stk, r.err, cmd)
    ELSE SliAddConns([m EXCEPT !.conns = r.conns], stk, items, i + 1, cmd)

SliAddConns(m, stk, items, i, cmd) ==
    IF i > Len(items) THEN [m EXCEPT !.stk = stk]
    ELSE SliAddConnsStep(m, stk, items, i, cmd,
                         SliAddConn(m, items[i][1], items[i][2], items[i][3], items[i][4]))

IsFloatArray(x, n) ==
    x.k = "array" /\ Len(x.v) = n /\ \A i \in 1..Len(x.v) : x.v[i].k = "float"

\* An entry of a synapse dictionary, 1 (the default of the model) without it.
SynEntry(dict, key) == IF key \in DOMAIN dict.v THEN dict.v[key].v ELSE 1

\* /model Connect on the operands pre post [params | weight delay] /model:
\* Connect_i_i_l, Connect_i_i_D_l and Connect_i_i_d_d_l.
SliConnect(m, model, cmd) ==
    IF model # SynModel THEN SliError(m, m.stk, "UnknownSynapseType", cmd)
    ELSE IF /\ Depth(m.stk) >= 5
            /\ Top(m.stk, 1).k = "float" /\ Top(m.stk, 2).k = "float"
            /\ Top(m.stk, 3).k = "int" /\ Top(m.stk, 4).k = "int"
    THEN SliAddConns(m, Drop(m.stk, 5),
            << <<Top(m.stk, 4), Top(m.stk, 3), Top(m.stk, 2).v, Top(m.stk, 1).v>> >>, 1, cmd)
    ELSE IF /\ Depth(m.stk) >= 4
            /\ Top(m.stk, 1).k = "dict"
            /\ Top(m.stk, 2).k = "int" /\ Top(m.stk, 3).k = "int"
    THEN IF ~IsStatusDict(Top(m.stk, 1), SynKeys)
         THEN SliError(m, m.stk, "UnaccessedDictionaryEntry", cmd)
         ELSE SliAddConns(m, Drop(m.stk, 4),
                 << <<Top(m.stk, 3), Top(m.stk, 2), SynEntry(Top(m.stk, 1), "weight"),
                      SynEntry(Top(m.stk, 1), "delay")>> >>, 1, cmd)
    ELSE IF Depth(m.stk) >= 3 /\ Top(m.stk, 1).k = "int" /\ Top(m.stk, 2).k = "int"
    THEN SliAddConns(m, Drop(m.stk, 3), << <<Top(m.stk, 2), Top(m.stk, 1), 1, 1>> >>, 1, cmd)
    ELSE SliError(m, m.stk, "ArgumentType", cmd)

\* /model ConvergentConnect on the operands pre post [weight delay] /model:
\* ConvergentConnect_a_i_l and _a_i_a_a_l; every source of the array to the
\* one target, the i-th with the i-th weight and delay.
SliConvergentConnect(m, model, cmd) ==
    IF model # SynModel THEN SliError(m, m.stk, "UnknownSynapseType", cmd)
    ELSE IF /\ Depth(m.stk) >= 5
            /\ Top(m.stk, 1).k = "array" /\ Top(m.stk, 2).k = "array"
            /\ Top(m.stk, 3).k = "int" /\ Top(m.stk, 4).k = "array"
    THEN IF ~(/\ IsFloatArray(Top(m.stk, 2), Len(Top(m.stk, 4).v))
              /\ IsFloatArray(Top(m.stk, 1), Len(Top(m.stk, 4).v)))
         THEN SliError(m, m.stk, "DimensionMismatch", cmd)
         ELSE SliAddConns(m, Drop(m.stk, 5),
                 [i \in 1..Len(Top(m.stk, 4).v) |->
                     <<Top(m.stk, 4).v[i], Top(m.stk, 3),
                       Top(m.stk, 2).v[i].v, Top(m.stk, 1).v[i].v>>], 1, cmd)
    ELSE IF Depth(m.stk) >= 3 /\ Top(m.stk, 1).k = "int" /\ Top(m.stk, 2).k = "array"
    THEN SliAddConns(m, Drop(m.stk, 3),
            [i \in 1..Len(Top(m.stk, 2).v) |-> <<Top(m.stk, 2).v[i], Top(m.stk, 1), 1, 1>>],
            1, cmd)
    ELSE SliError(m, m.stk, "ArgumentType", cmd)

\* /model DivergentConnect on the operands pre post [weight delay] /model:
\* DivergentConnect_i_a_l and _i_a_a_a_l; the one source to every target of
\* the array, the j-th with the j-th weight and delay.
SliDivergentConnect(m, model, cmd) ==
    IF model # SynModel THEN SliError(m, m.stk, "UnknownSynapseType", cmd)
    ELSE IF /\ Depth(m.stk) >= 5
            /\ Top(m.stk, 1).k = "array" /\ Top(m.stk, 2).k = "array"
            /\ Top(m.stk, 3).k = "array" /\ Top(m.stk, 4).k = "int"
    THEN IF ~(/\ IsFloatArray(Top(m.stk, 2), Len(Top(m.stk, 3).v))
              /\ IsFloatArray(Top(m.stk, 1), Len(Top(m.stk, 3).v)))
         THEN SliError(m, m.stk, "DimensionMismatch", cmd)
         ELSE SliAddConns(m, Drop(m.stk, 5),
                 [j \in 1..Len(Top(m.stk, 3).v) |->
                     <<Top(m.stk, 4), Top(m.stk, 3).v[j],
                       Top(m.stk, 2).v[j].v, Top(m.stk, 1).v[j].v>>], 1, cmd)
    ELSE IF Depth(m.stk) >= 3 /\ Top(m.stk, 1).k = "array" /\ Top(m.stk, 2).k = "int"
    THEN SliAddConns(m, Drop(m.stk, 3),
            [j \in 1..Len(Top(m.stk, 1).v) |-> <<Top(m.stk, 2), Top(m.stk, 1).v[j], 1, 1>>],
            1, cmd)
    ELSE SliError(m, m.stk, "ArgumentType", cmd)

\* The connection datum of a stored connection: source, target, target
\* thread, synapse model id, port.
ConnDatum(c) == C(<<I(c.source), I(c.target), I(c.thread), I(c.syn), I(c.port)>>)
ConnArray(found) == A([i \in 1..Len(found) |-> ConnDatum(found[i])])

IsGidArray(x) == x.k = "array" /\ \A i \in 1..Len(x.v) : x.v[i].k = "int"
Elems(x) == {x.v[i] : i \in 1..Len(x.v)}

\* Whether a stored connection passes the filter dictionary flt.
PassesFilter(c, flt) ==
    /\ "source" \in DOMAIN flt => I(c.source) \in Elems(flt["source"])
    /\ "target" \in DOMAIN flt => I(c.target) \in Elems(flt["target"])

\* The stored connections that pass a filter, in the order of their sources
\* and, for one source, of their ports.
RECURSIVE ConnsOfSources(_, _, _)
ConnsOfSources(m, s, flt) ==
    IF s > Len(m.nodes) THEN <<>>
    ELSE LET Mine(c) == c.source = s /\ PassesFilter(c, flt)
         IN  SelectSeq(m.conns, Mine) \o ConnsOfSources(m, s + 1, flt)

\* GetConnections: the dictionary flt on top of the stack filters by source,
\* target and synapse model; an entry it lacks filters nothing.
SliGetConnectionsOf(m, flt, cmd) ==
    IF ~(/\ flt.k = "dict"
         /\ DOMAIN flt.v \subseteq {"source", "target", "synapse_model"}
         /\ "source" \in DOMAIN flt.v => IsGidArray(flt.v["source"])
         /\ "target" \in DOMAIN flt.v => IsGidArray(flt.v["target"])
         /\ "synapse_model" \in DOMAIN flt.v => flt.v["synapse_model"].k = "lit")
    THEN SliError(m, m.stk, "ArgumentType", cmd)
    ELSE IF "synapse_model" \in DOMAIN flt.v /\ flt.v["synapse_model"].v # SynModel
         THEN SliError(m, m.stk, "UnknownSynapseType", cmd)
    ELSE [m EXCEPT !.stk = Append(Drop(@, 1), ConnArray(ConnsOfSources(m, 1, flt.v)))]

SliGetConnections(m, cmd) ==
    IF Depth(m.stk) < 1 THEN SliError(m, m.stk, "StackUnderflow", cmd)
    ELSE SliGetConnectionsOf(m, Top(m.stk, 0), cmd)

\* {FindConnections} Map Flatten: for every dictionary of the array, the
\* connections of its source (to its target, if it names one), by port.
RECURSIVE SliFindAll(_, _, _)
SliFindAll(m, dicts, i) ==
    IF i > Len(dicts) THEN <<>>
    ELSE LET Mine(c) == /\ c.source = dicts[i].v["source"].v
                        /\ "target" \in DOMAIN dicts[i].v => c.target = dicts[i].v["target"].v
         IN  SelectSeq(m.conns, Mine) \o SliFindAll(m, dicts, i + 1)

IsFindDict(d) ==
    /\ d.k = "dict"
    /\ DOMAIN d.v \subseteq {"source", "target", "synapse_model"}
    /\ "source" \in DOMAIN d.v
    /\ d.v["source"].k = "int"
    /\ "target" \in DOMAIN d.v => d.v["target"].k = "int"
    /\ "synapse_model" \in DOMAIN d.v => d.v["synapse_model"] = S(SynModel)

SliFindConnectionsOf(m, top, cmd) ==
    IF top.k = "array" /\ \A i \in 1..Len(top.v) : IsFindDict(top.v[i])
    THEN [m EXCEPT !.stk = Append(Drop(@, 1), ConnArray(SliFindAll(m, top.v, 1)))]
    ELSE SliError(m, m.stk, "ArgumentType", cmd)

SliFindConnections(m, cmd) ==
    IF Depth(m.stk) < 1 THEN SliError(m, m.stk, "StackUnderflow", cmd)
    ELSE SliFindConnectionsOf(m, Top(m.stk, 0), cmd)

\* /props Set { props GetGlobalChildren } Map on the operands subnets
\* props: for every subnet the ids of its children.  The one subnet is the
\* root, 0, that holds every node.
SliGetChildren(m, cmd) ==
    IF ~(Depth(m.stk) >= 2 /\ Top(m.stk, 0).k = "dict" /\ IsGidArray(Top(m.stk, 1)))
    THEN SliError(m, m.stk, "ArgumentType", cmd)
    ELSE IF \E i \in 1..Len(Top(m.stk, 1).v) : Top(m.stk, 1).v[i].v # 0
         THEN SliError(m, m.stk, "SubnetExpected", cmd)
    ELSE [m EXCEPT !.stk = Append(Drop(@, 2),
                      A([i \in 1..Len(Top(m.stk, 1).v) |->
                           A([g \in 1..Len(m.nodes) |-> I(g)])]))]

\* /model exch SetDefaults on the operands dict /model: SetDefaults_l_D.
SliSetDefaults(m, model, cmd) ==
    IF ~(Depth(m.stk) >= 2 /\ Top(m.stk, 1).k = "dict")
    THEN SliError(m, m.stk, "ArgumentType", cmd)
    ELSE IF model \notin NodeModels THEN SliError(m, Exch(m.stk), "UnknownModelName", cmd)
    ELSE IF ~IsStatusDict(Top(m.stk, 1), StatusKeys)
         THEN SliError(m, Exch(m.stk), "UnaccessedDictionaryEntry", cmd)
    ELSE [m EXCEPT !.stk = Drop(@, 2),
                   !.defaults[model] = Override(@, Top(m.stk, 1).v)]

\* (module) Install: the handle of the loaded module is pushed.
SliInstall(m, module, cmd) ==
    IF module # "mymodule"
    THEN SliError(m, Append(m.stk, S(module)), "DynamicModuleManagementError", cmd)
    ELSE [m EXCEPT !.stk = Append(@, [k |-> "dlmodule", v |-> module])]

\* count: the number of operands is pushed.
SliCount(m) == [m EXCEPT !.stk = Append(@, I(Depth(m.stk)))]

\* GetOptions on the operand /command: the options of the command, with
\* its default options as one more entry.
WithDefaultOptions(f) ==
    [key \in OptionKeys \cup {"DefaultOptions"} |->
        IF key = "DefaultOptions" THEN D(DefaultOptions) ELSE f[key]]

SliGetOptions(m, cmd) ==
    IF ~(Depth(m.stk) >= 1 /\ Top(m.stk, 0).k = "lit")
    THEN SliError(m, m.stk, "ArgumentType", cmd)
    ELSE IF Top(m.stk, 0).v \notin OptionCommands
         THEN SliError(m, m.stk, "UndefinedName", cmd)
    ELSE [m EXCEPT !.stk = Append(Drop(@, 1), D(WithDefaultOptions(m.opts[Top(m.stk, 0).v])))]

\* SetOptions on the operands /command dict: the entries of the dictionary
\* replace the options of the command, the other options stay.
IsOptionDict(d) ==
    /\ d.k = "dict"
    /\ DOMAIN d.v \subseteq OptionKeys
    /\ \A key \in DOMAIN d.v : d.v[key].k = "bool"

SliSetOptions(m, cmd) ==
    IF ~(Depth(m.stk) >= 2 /\ Top(m.stk, 0).k = "dict" /\ Top(m.stk, 1).k = "lit")
    THEN SliError(m, m.stk, "ArgumentType", cmd)
    ELSE IF Top(m.stk, 1).v \notin OptionCommands
         THEN SliError(m, m.stk, "UndefinedName", cmd)
    ELSE IF ~IsOptionDict(Top(m.stk, 0))
         THEN SliError(m, m.stk, "UnaccessedDictionaryEntry", cmd)
    ELSE [m EXCEPT !.stk = Drop(@, 2),
                   !.opts[Top(m.stk, 1).v] = Override(@, Top(m.stk, 0).v)]

\* RandomConvergentConnect and RandomDivergentConnect under forall: for every
\* node of outer, n nodes of inner are drawn (m.draw holds the draws) and
\* connected with it, the i-th of them with the i-th weight and delay.  The
\* drawn nodes are the sources of the convergent command and the targets of
\* the divergent one.
SliRandomConnect(m, rest, name, outer, inner, n, w, d, cmd) ==
    IF ~(IsGidArray(outer) /\ IsGidArray(inner) /\ n.k = "int" /\ n.v >= 0)
    THEN SliError(m, m.stk, "ArgumentType", cmd)
    ELSE IF w.k # "none" /\ ~(IsFloatArray(w, n.v) /\ IsFloatArray(d, n.v))
         THEN SliError(m, m.stk, "DimensionMismatch", cmd)
    ELSE SliAddConns(m, rest,
            [j \in 1..(Len(outer.v) * n.v) |->
                <<IF name = "RandomConvergentConnect"
                  THEN inner.v[m.draw[j]] ELSE outer.v[((j - 1) \div n.v) + 1],
                  IF name = "RandomConvergentConnect"
                  THEN outer.v[((j - 1) \div n.v) + 1] ELSE inner.v[m.draw[j]],
                  IF w.k = "none" THEN 1 ELSE w.v[((j - 1) % n.v) + 1].v,
                  IF w.k = "none" THEN 1 ELSE d.v[((j - 1) % n.v) + 1].v>>], 1, cmd)

\* The operands outer inner n /model, or outer inner n weights delays /model.
SliRandom(m, name, wd, cmd) ==
    IF Depth(m.stk) < (IF wd THEN 6 ELSE 4) THEN SliError(m, m.stk, "StackUnderflow", cmd)
    ELSE IF Top(m.stk, 0) # Lit(SynModel) THEN SliError(m, m.stk, "UnknownSynapseType", cmd)
    ELSE IF wd
         THEN SliRandomConnect(m, Drop(m.stk, 6), name, Top(m.stk, 5), Top(m.stk, 4),
                               Top(m.stk, 3), Top(m.stk, 2), Top(m.stk, 1), cmd)
    ELSE SliRandomConnect(m, Drop(m.stk, 4), name, Top(m.stk, 3), Top(m.stk, 2),
                          Top(m.stk, 1), None, None, cmd)

\* A machine with one more operand, the literal commands start with.
WithLit(m, name) == [m EXCEPT !.stk = Append(@, Lit(name))]
WithStack(m, stk) == [m EXCEPT !.stk = stk]

\* The command string cmd on a machine that has logged it; arg is what the
\* caller formats into it.
SliRun(m, cmd, arg) ==
    CASE cmd = "count" -> SliCount(m)
      [] cmd = "/%s exch Create" ->
           IF Depth(m.stk) < 1 THEN SliError(m, Append(m.stk, Lit(arg)), "StackUnderflow", cmd)
           ELSE SliCreate(WithStack(m, Exch(Append(m.stk, Lit(arg)))), cmd)
      [] cmd = "/%s 3 1 roll exch Create" ->
           IF Depth(m.stk) < 2 THEN SliError(m, Append(m.stk, Lit(arg)), "StackUnderflow", cmd)
           ELSE SliCreate(WithStack(m, Exch(Roll31(Append(m.stk, Lit(arg))))), cmd)
      [] cmd = "2 arraystore" -> SliArraystore2(m, cmd)
      [] cmd = "Transpose { arrayload pop SetStatus } forall" -> SliTransposeSetStatus(m, cmd)
      [] cmd = "{ GetStatus } Map" -> SliGetStatusMap(m, "all", <<>>, cmd)
      [] cmd = "{{ GetStatus /{0} get }} Map" -> SliGetStatusMap(m, "one", <<arg>>, cmd)
      [] cmd = "{{ GetStatus }} Map {{ [ [ {0} ] ] get }} Map" ->
           SliGetStatusMap(m, "list", arg, cmd)
      [] cmd = "{FindConnections} Map Flatten" -> SliFindConnections(m, cmd)
      [] cmd = "GetConnections" -> SliGetConnections(m, cmd)
      [] cmd = "/%s Connect" -> SliConnect(WithLit(m, arg), arg, cmd)
      [] cmd = "/%s ConvergentConnect" -> SliConvergentConnect(WithLit(m, arg), arg, cmd)
      [] cmd = "/%s DivergentConnect" -> SliDivergentConnect(WithLit(m, arg), arg, cmd)
      [] cmd = "/{0} exch SetDefaults" -> SliSetDefaults(WithLit(m, arg), arg, cmd)
      [] cmd = "(%s) Install" -> SliInstall(m, arg, cmd)
      [] cmd = "/props Set { props %s } Map" -> SliGetChildren(m, cmd)
      [] cmd = "GetOptions" -> SliGetOptions(m, cmd)
      [] cmd = "SetOptions" -> SliSetOptions(m, cmd)
      [] cmd = "/m Set /n Set /pre Set { pre exch n m RandomConvergentConnect } forall" ->
           SliRandom(m, "RandomConvergentConnect", FALSE, cmd)
      [] cmd = "/m Set /d Set /w Set /n Set /pre Set { pre exch n w d m RandomConvergentConnect } forall" ->
           SliRandom(m, "RandomConvergentConnect", TRUE, cmd)
      [] cmd = "/m Set /n Set /post Set { n post m RandomDivergentConnect } forall" ->
           SliRandom(m, "RandomDivergentConnect", FALSE, cmd)
      [] cmd = "/m Set /d Set /w Set /n Set /post Set { n post w d m RandomDivergentConnect } forall" ->
           SliRandom(m, "RandomDivergentConnect", TRUE, cmd)
      [] OTHER -> SliError(m, m.stk, "UndefinedName", cmd)

\* sr(cmd): run a command string.
sr(m, cmd, arg) ==
    IF Failed(m) THEN m
    ELSE SliRun([m EXCEPT !.log = Append(@, Prim("sr", cmd))], cmd, arg)

\* The number of entries of a connection id.
CONN_LEN == 5

\* The connection datum pcd makes of one element: of a dictionary with the
\* entries FindConnections returns (the target is not among them), or of a
\* sequence of CONN_LEN integers.
ConnKeys == {"source", "target_thread", "synapse_modelid", "port"}
IsConnDict(x) ==
    /\ x.k = "dict"
    /\ DOMAIN x.v = ConnKeys
    /\ \A key \in ConnKeys : x.v[key].k = "int"
IsConnSeq(x) ==
    /\ x.k \in {"list", "tuple"}
    /\ Len(x.v) = CONN_LEN
    /\ \A i \in 1..Len(x.v) : x.v[i].k = "int"
EncodeConn(x) ==
    IF x.k = "dict"
    THEN C(<<x.v["source"], None, x.v["target_thread"], x.v["synapse_modelid"], x.v["port"]>>)
    ELSE C(x.v)

\* pcd(seq): push a sequence of connections as an array of connection datums.
pcd(m, seq) ==
    IF Failed(m) THEN m
    ELSE IF ~(\A i \in 1..Len(seq.v) : IsConnDict(seq.v[i]) \/ IsConnSeq(seq.v[i]))
         THEN [Raise(m, Exc("TypeError", "pcd", "", 0)) EXCEPT !.log = Append(@, Given("pcd", seq))]
    ELSE [m EXCEPT !.stk = Append(@, A([i \in 1..Len(seq.v) |-> EncodeConn(seq.v[i])])),
                   !.log = Append(@, Given("pcd", seq))]

\* sli_func(s, *args): the arguments are pushed, the command is run and its
\* result is popped.
RECURSIVE PushAll(_, _, _)
PushAll(m, args, i) == IF i > Len(args) THEN m ELSE PushAll(sps(m, args[i]), args, i + 1)

\* What the command left above the operands there were is the result: the
\* one value, or None when it left nothing.
sli_result(base, m) ==
    IF Failed(m) \/ Depth(m.stk) > base THEN spp(m)
    ELSE [m EXCEPT !.val = None, !.log = Append(@, Prim("spp", ""))]

sli_func(m, s, arg, args) == sli_result(Depth(m.stk), sr(PushAll(m, args, 1), s, arg))

(***************************************************************************)
(* hl_api.py.  Every function maps the machine at its entry to the machine *)
(* at its exit: m.val is what it returns, m.exc what it raises.  A         *)
(* function X decorated with stack_checker is X_f run between the          *)
(* wrapper's entry and its exit; the wrapper's frame holds the branch it   *)
(* took at entry and the depth it read there.                              *)
(***************************************************************************)
PushFrame(m, checked, before) ==
    [m EXCEPT !.frames = Append(@, [checked |-> checked, stackload_before |-> before])]
PopFrame(m) == [m EXCEPT !.frames = SubSeq(@, 1, Len(@) - 1)]
Frame(m) == m.frames[Len(m.frames)]

\* stack_checker_func up to the call of f: with the debug flag off f is
\* called as it is, with it on the depth is counted and popped first.
Counted(m) == PushFrame(m, TRUE, m.val.v)

\* Variants of the wrapper that the properties of the guard must tell from
\* it: one that counts whatever the debug flag, one that never raises.
stack_checker_enter_always(m) ==
    IF Failed(m) THEN PushFrame(m, FALSE, 0)
    ELSE Counted(spp(sr(m, "count", "")))

CheckAfter_silent(ran, counted, fname) == PopFrame([counted EXCEPT !.val = ran.val])

stack_checker_enter(m) ==
    IF Failed(m) \/ ~m.dbg THEN PushFrame(m, FALSE, 0)
    ELSE Counted(spp(sr(m, "count", "")))

\* stack_checker_func after f has returned its result into ran: counted is
\* ran after the second count has been popped.
CheckAfter(ran, counted, fname) ==
    IF counted.val.v - Frame(ran).stackload_before # 0
    THEN PopFrame(Raise(counted,
                        Exc("NESTError", "Function '%s' left %i elements on the stack.",
                            fname, counted.val.v - Frame(ran).stackload_before)))
    ELSE PopFrame([counted EXCEPT !.val = ran.val])

\* A variant of the wrapper that looks at the debug flag again when f has
\* returned.
stack_checker_exit_again(ran, fname) ==
    IF Failed(ran) \/ ~ran.dbg THEN PopFrame(ran)
    ELSE CheckAfter(ran, spp(sr(ran, "count", "")), fname)

stack_checker_exit(ran, fname) ==
    IF Failed(ran) \/ ~Frame(ran).checked THEN PopFrame(ran)
    ELSE CheckAfter(ran, spp(sr(ran, "count", "")), fname)

is_iterable(x) == PyHasLen(x)

is_coercible_to_sli_array(x) == x.k \in {"tuple", "list", "range"}

\* Called on non-empty sequences only: looks at the first element.
is_sequence_of_connections(seq) ==
    seq.v[1].k = "dict" \/ (PyHasLen(seq.v[1]) /\ PyLen(seq.v[1]) = CONN_LEN)

\* tuple(range(a, b))
TupleRange(a, b) == T([i \in 1..(b - a) |-> I(a + i - 1)])

\* Install(module_name)
Install_f(m, module_name) == Return(sr(m, "(%s) Install", module_name), None)

Install(m, module_name) ==
    stack_checker_exit(Install_f(stack_checker_enter(m), module_name), "Install")

\* params and val of SetDefaults and SetStatus: a key and its value make a
\* dictionary, a key and a sequence of values a list of dictionaries.
KeyVal(params, val) == D([key \in {params.v} |-> val])

\* SetDefaults(model, params, val)
SetDefaults_f(m, model, params, val) ==
    Return(sr(sps(m, IF val.k # "none" /\ params.k \in {"str", "lit"}
                     THEN KeyVal(params, val) ELSE params),
              "/{0} exch SetDefaults", model), None)

SetDefaults(m, model, params, val) ==
    stack_checker_exit(SetDefaults_f(stack_checker_enter(m), model, params, val), "SetDefaults")

\* SetStatus(nodes, params, val), once params has been broadcast into b.
SetStatus_send(m, nodes, b) ==
    IF b.exc.k # "none" THEN Raise(m, b.exc)
    ELSE IF PyLen(nodes) # PyLen(b.val)
         THEN Raise(m, Exc("TypeError", "status dict must be a dict, or list of dicts of length 1 or len(nodes)", "", 0))
    ELSE Return(sr(sr(sps(IF is_sequence_of_connections(nodes) THEN pcd(m, nodes)
                          ELSE sps(m, nodes), b.val),
                      "2 arraystore", ""),
                   "Transpose { arrayload pop SetStatus } forall", ""), None)

\* A variant of SetStatus that takes a sequence of values for one value.
SetStatus_f_unexpanded(m, nodes, params, val) ==
    IF ~is_coercible_to_sli_array(nodes)
    THEN Raise(m, Exc("TypeError", "nodes must be a list of nodes or synapses", "", 0))
    ELSE IF PyLen(nodes) = 0 THEN Return(m, None)
    ELSE SetStatus_send(m, nodes,
            broadcast(IF val.k # "none" /\ params.k \in {"str", "lit"}
                      THEN KeyVal(params, val)
                      ELSE params,
                      PyLen(nodes), {"dict"}, "params"))

\* A variant of SetStatus that pushes and pops its nodes when there are none.
SetStatus_f_pushing(m, nodes, params, val) ==
    IF ~is_coercible_to_sli_array(nodes)
    THEN Raise(m, Exc("TypeError", "nodes must be a list of nodes or synapses", "", 0))
    ELSE IF PyLen(nodes) = 0 THEN Return(spp(sps(m, nodes)), None)
    ELSE SetStatus_send(m, nodes,
            broadcast(IF val.k # "none" /\ params.k \in {"str", "lit"}
                      THEN IF is_iterable(val) /\ val.k \notin {"str", "dict"}
                           THEN L([i \in 1..Len(val.v) |-> KeyVal(params, val.v[i])])
                           ELSE KeyVal(params, val)
                      ELSE params,
                      PyLen(nodes), {"dict"}, "params"))

SetStatus_f(m, nodes, params, val) ==
    IF ~is_coercible_to_sli_array(nodes)
    THEN Raise(m, Exc("TypeError", "nodes must be a list of nodes or synapses", "", 0))
    ELSE IF PyLen(nodes) = 0 THEN Return(m, None)
    ELSE SetStatus_send(m, nodes,
            broadcast(IF val.k # "none" /\ params.k \in {"str", "lit"}
                      THEN IF is_iterable(val) /\ val.k \notin {"str", "dict"}
                           THEN L([i \in 1..Len(val.v) |-> KeyVal(params, val.v[i])])
                           ELSE KeyVal(params, val)
                      ELSE params,
                      PyLen(nodes), {"dict"}, "params"))

SetStatus(m, nodes, params, val) ==
    stack_checker_exit(SetStatus_f(stack_checker_enter(m), nodes, params, val), "SetStatus")

\* The command GetStatus runs for its keys, and what it formats into it.
GetStatusCmd(keys) ==
    IF keys.k = "none" THEN "{ GetStatus } Map"
    ELSE IF keys.k \in {"str", "lit"} THEN "{{ GetStatus /{0} get }} Map"
    ELSE "{{ GetStatus }} Map {{ [ [ {0} ] ] get }} Map"

\* A variant of GetStatusKeys that formats a list of keys last key first.
GetStatusKeys_reversed(keys) ==
    IF keys.k = "none" THEN ""
    ELSE IF keys.k \in {"str", "lit"} THEN keys.v
    ELSE [i \in 1..Len(keys.v) |-> keys.v[Len(keys.v) + 1 - i].v]

GetStatusKeys(keys) ==
    IF keys.k = "none" THEN ""
    ELSE IF keys.k \in {"str", "lit"} THEN keys.v
    ELSE [i \in 1..Len(keys.v) |-> keys.v[i].v]

\* A variant of GetStatus that leaves its result on the stack.
GetStatus_f_unpopped(m, nodes, keys) ==
    IF ~is_coercible_to_sli_array(nodes)
    THEN Raise(m, Exc("TypeError", "nodes must be a list of nodes or synapses", "", 0))
    ELSE IF PyLen(nodes) = 0 THEN Return(m, nodes)
    ELSE Return(sr(IF is_sequence_of_connections(nodes) THEN pcd(m, nodes) ELSE sps(m, nodes),
                   GetStatusCmd(keys), GetStatusKeys(keys)), nodes)

\* A variant of GetStatus that looks at its keys after it has pushed its
\* nodes.
GetStatus_f_late(m, nodes, keys) ==
    IF ~is_coercible_to_sli_array(nodes)
    THEN Raise(m, Exc("TypeError", "nodes must be a list of nodes or synapses", "", 0))
    ELSE IF PyLen(nodes) = 0 THEN Return(m, nodes)
    ELSE IF keys.k # "none" /\ keys.k \notin {"str", "lit"} /\ ~is_iterable(keys)
         THEN Raise(IF is_sequence_of_connections(nodes) THEN pcd(m, nodes) ELSE sps(m, nodes),
                    Exc("TypeError", "keys should be either a string or an iterable", "", 0))
    ELSE spp(sr(IF is_sequence_of_connections(nodes) THEN pcd(m, nodes) ELSE sps(m, nodes),
                GetStatusCmd(keys), GetStatusKeys(keys)))

\* GetStatus(nodes, keys)
GetStatus_f(m, nodes, keys) ==
    IF ~is_coercible_to_sli_array(nodes)
    THEN Raise(m, Exc("TypeError", "nodes must be a list of nodes or synapses", "", 0))
    ELSE IF PyLen(nodes) = 0 THEN Return(m, nodes)
    ELSE IF keys.k # "none" /\ keys.k \notin {"str", "lit"} /\ ~is_iterable(keys)
         THEN Raise(m, Exc("TypeError", "keys should be either a string or an iterable", "", 0))
    ELSE spp(sr(IF is_sequence_of_connections(nodes) THEN pcd(m, nodes) ELSE sps(m, nodes),
                GetStatusCmd(keys), GetStatusKeys(keys)))

GetStatus(m, nodes, keys) ==
    stack_checker_exit(GetStatus_f(stack_checker_enter(m), nodes, keys), "GetStatus")

\* A variant of Create that raises again without a warning.
Create_warn_silent(m, gids) ==
    IF Failed(m) THEN m
    ELSE Return(m, gids)

\* A variant of Create that raises an error of its own after the warning.
Create_warn_replaced(m, gids) ==
    IF Failed(m)
    THEN Raise([m EXCEPT !.warn = Append(@, gids)],
               Exc("NESTError", "SetStatus() call failed, but nodes have already been created!",
                   "Create", 0))
    ELSE Return(m, gids)

\* Create(model, n, params): after SetStatus has run on the new nodes.
Create_warn(m, gids) ==
    IF Failed(m) THEN [m EXCEPT !.warn = Append(@, gids)]
    ELSE Return(m, gids)

\* A variant of Create that sets the status of its nodes whatever params.
Create_params_always(m, gids, params) ==
    IF params.k # "dict"
    THEN Create_warn(SetStatus(m, gids, IF params.k = "none" THEN D([V_m |-> F(1)]) ELSE params,
                               None), gids)
    ELSE Return(m, gids)

\* ... after the new nodes have got their ids.
Create_params(m, gids, params) ==
    IF params.k # "none" /\ params.k # "dict"
    THEN Create_warn(SetStatus(m, gids, params, None), gids)
    ELSE Return(m, gids)

\* A variant of Create that takes the range one id too low.
Create_gids_shifted(m, n, params) ==
    IF Failed(m) THEN m
    ELSE Create_params(m, TupleRange(m.val.v - n, m.val.v), params)

\* ... after the id of the last node has been popped.
Create_gids(m, n, params) ==
    IF Failed(m) THEN m
    ELSE Create_params(m, TupleRange(m.val.v - n + 1, m.val.v + 1), params)

\* A variant of Create that pushes n before the dictionary.
Create_f_n_first(m, model, n, params) ==
    Create_gids(spp(sr(IF params.k = "dict" THEN sps(sps(m, I(n)), params) ELSE sps(m, I(n)),
                       IF params.k = "dict" THEN "/%s 3 1 roll exch Create"
                       ELSE "/%s exch Create",
                       model)),
                n, params)

Create_f(m, model, n, params) ==
    Create_gids(spp(sr(sps(IF params.k = "dict" THEN sps(m, params) ELSE m, I(n)),
                       IF params.k = "dict" THEN "/%s 3 1 roll exch Create"
                       ELSE "/%s exch Create",
                       model)),
                n, params)

Create(m, model, n, params) ==
    stack_checker_exit(Create_f(stack_checker_enter(m), model, n, params), "Create")

\* int(x)
PyInt(x) == I(x.v)

\* A variant of DecodeConn that takes thread and synapse model for each
\* other.
DecodeConn_swapped(c) ==
    D([source |-> PyInt(c.v[1]), target_thread |-> PyInt(c.v[4]),
       synapse_modelid |-> PyInt(c.v[3]), port |-> PyInt(c.v[5])])

\* The dictionary FindConnections makes of one connection id popped from
\* the stack: src, _, tt, sm, prt.
DecodeConn(c) ==
    D([source |-> PyInt(c.v[1]), target_thread |-> PyInt(c.v[3]),
       synapse_modelid |-> PyInt(c.v[4]), port |-> PyInt(c.v[5])])

\* The dictionaries FindConnections pushes, one per source.
FindParams(source, target, synapse_model) ==
    L([i \in 1..Len(source.v) |->
         D([key \in {"source"} \cup (IF target.k = "none" THEN {} ELSE {"target"})
                               \cup (IF synapse_model.k = "none" THEN {} ELSE {"synapse_model"})
              |-> IF key = "source" THEN source.v[i]
                  ELSE IF key = "target" THEN target.v[i] ELSE synapse_model.v[i]])])

\* FindConnections: the connection ids popped become dictionaries.
FindConnections_decode(m) ==
    IF Failed(m) THEN m
    ELSE [m EXCEPT !.val = T([i \in 1..Len(m.val.v) |-> DecodeConn(m.val.v[i])])]

\* FindConnections, once synapse model and target have been broadcast into
\* bs and bt.
FindConnections_send(m, source, target, bs, bt) ==
    IF target.k = "none" /\ bs.exc.k # "none" THEN Raise(m, bs.exc)
    ELSE IF bt.exc.k # "none" THEN Raise(m, bt.exc)
    ELSE IF bs.exc.k # "none" THEN Raise(m, bs.exc)
    ELSE FindConnections_decode(
            spp(sr(sps(m, FindParams(source, bt.val, bs.val)),
                   "{FindConnections} Map Flatten", "")))

FindConnections_syn(m, source, target, syn) ==
    FindConnections_send(m, source, target,
        IF syn.k = "none" THEN Returned(None)
        ELSE broadcast(syn, PyLen(source), {"str"}, "synapse_model"),
        IF target.k = "none" THEN Returned(None)
        ELSE broadcast(target, PyLen(source), {"int"}, "target"))

\* FindConnections(source, target, synapse_model, synapse_type)
FindConnections_f(m, source, target, synapse_model, synapse_type) ==
    IF synapse_model.k # "none" /\ synapse_type.k # "none"
    THEN Raise(m, Exc("NESTError", "synapse_type is alias for synapse_model, cannot be used together.", "", 0))
    ELSE FindConnections_syn(m, source, target,
                             IF synapse_type.k # "none" THEN synapse_type ELSE synapse_model)

FindConnections(m, source, target, synapse_model, synapse_type) ==
    stack_checker_exit(
        FindConnections_f(stack_checker_enter(m), source, target, synapse_model, synapse_type),
        "FindConnections")

\* A variant of GetConnectionsParams that leaves target and synapse model
\* out.
GetConnectionsParams_source(source, target, synapse_model) ==
    D([key \in (IF source.k = "none" THEN {} ELSE {"source"}) |-> source])

\* The dictionary GetConnections pushes.
GetConnectionsParams(source, target, synapse_model) ==
    D([key \in (IF source.k = "none" THEN {} ELSE {"source"})
               \cup (IF target.k = "none" THEN {} ELSE {"target"})
               \cup (IF synapse_model.k = "none" THEN {} ELSE {"synapse_model"})
         |-> IF key = "source" THEN source
             ELSE IF key = "target" THEN target ELSE Lit(synapse_model.v)])

\* GetConnections(source, target, synapse_model)
GetConnections_f(m, source, target, synapse_model) ==
    IF source.k # "none" /\ ~is_coercible_to_sli_array(source)
    THEN Raise(m, Exc("TypeError", "source must be a list of GIDs", "", 0))
    ELSE IF target.k # "none" /\ ~is_coercible_to_sli_array(target)
         THEN Raise(m, Exc("TypeError", "target must be a list of GIDs", "", 0))
    ELSE spp(sr(sps(m, GetConnectionsParams(source, target, synapse_model)),
                "GetConnections", ""))

GetConnections(m, source, target, synapse_model) ==
    stack_checker_exit(GetConnections_f(stack_checker_enter(m), source, target, synapse_model),
                       "GetConnections")

\* What a connecting function has made of its arguments when its loop
\* starts: the variant and the broadcast values, or the exception raised
\* before.
Sending(mode, params, delay) == [exc |-> NoExc, mode |-> mode, params |-> params, delay |-> delay]
NotSending(exc) == [exc |-> exc, mode |-> "", params |-> None, delay |-> None]

\* The loop of Connect from the i-th pair on; mode names the variant.
RECURSIVE ConnectLoop(_, _, _, _, _, _, _, _)
ConnectLoop(m, pre, post, params, delay, model, mode, i) ==
    IF i > PyLen(pre) \/ i > PyLen(post) \/ Failed(m) THEN m
    ELSE ConnectLoop(sr(IF mode = "plain" THEN sps(sps(m, pre.v[i]), post.v[i])
                        ELSE IF mode = "params"
                             THEN sps(sps(sps(m, pre.v[i]), post.v[i]), params.v[i])
                        ELSE sps(sps(sps(sps(m, pre.v[i]), post.v[i]), params.v[i]), delay.v[i]),
                        "/%s Connect", model),
                     pre, post, params, delay, model, mode, i + 1)

\* Connect with params only, broadcast into bp.
Connect_params(pre, bp) ==
    IF bp.exc.k # "none" THEN NotSending(bp.exc)
    ELSE IF PyLen(bp.val) # PyLen(pre)
         THEN NotSending(Exc("NESTError", "params must be a dict, or list of dicts of length 1 or len(pre).", "", 0))
    ELSE Sending("params", bp.val, None)

\* A variant of Connect_weights that takes weights and delays for each
\* other.
Connect_weights_swapped(pre, bw, bd) ==
    IF bw.exc.k # "none" THEN NotSending(bw.exc)
    ELSE IF PyLen(bw.val) # PyLen(pre)
         THEN NotSending(Exc("NESTError", "params must be a float, or list of floats of length 1 or len(pre) and will be used as weight(s).", "", 0))
    ELSE IF bd.exc.k # "none" THEN NotSending(bd.exc)
    ELSE IF PyLen(bd.val) # PyLen(pre)
         THEN NotSending(Exc("NESTError", "delay must be a float, or list of floats of length 1 or len(pre).", "", 0))
    ELSE Sending("wd", bd.val, bw.val)

\* Connect with params (the weights) and delay, broadcast into bw and bd.
Connect_weights(pre, bw, bd) ==
    IF bw.exc.k # "none" THEN NotSending(bw.exc)
    ELSE IF PyLen(bw.val) # PyLen(pre)
         THEN NotSending(Exc("NESTError", "params must be a float, or list of floats of length 1 or len(pre) and will be used as weight(s).", "", 0))
    ELSE IF bd.exc.k # "none" THEN NotSending(bd.exc)
    ELSE IF PyLen(bd.val) # PyLen(pre)
         THEN NotSending(Exc("NESTError", "delay must be a float, or list of floats of length 1 or len(pre).", "", 0))
    ELSE Sending("wd", bw.val, bd.val)

\* A variant of Connect_args that takes delay without params for neither.
Connect_args_lenient(pre, params, delay) ==
    IF params.k = "none" THEN Sending("plain", None, None)
    ELSE IF params.k # "none" /\ delay.k = "none"
    THEN Connect_params(pre, broadcast(params, PyLen(pre), {"dict"}, "params"))
    ELSE Connect_weights(pre, broadcast(params, PyLen(pre), {"float"}, "params"),
                         broadcast(delay, PyLen(pre), {"float"}, "delay"))

Connect_args(pre, params, delay) ==
    IF params.k = "none" /\ delay.k = "none" THEN Sending("plain", None, None)
    ELSE IF params.k # "none" /\ delay.k = "none"
    THEN Connect_params(pre, broadcast(params, PyLen(pre), {"dict"}, "params"))
    ELSE IF params.k # "none" /\ delay.k # "none"
    THEN Connect_weights(pre, broadcast(params, PyLen(pre), {"float"}, "params"),
                         broadcast(delay, PyLen(pre), {"float"}, "delay"))
    ELSE NotSending(Exc("NESTError", "Both 'params' and 'delay' have to be given.", "", 0))

\* A variant of Connect that connects post[i] to pre[i].
Connect_send_swapped(m, pre, post, model, args) ==
    IF args.exc.k # "none" THEN Raise(m, args.exc)
    ELSE Return(ConnectLoop(m, post, pre, args.params, args.delay, model, args.mode, 1), None)

\* A variant of Connect that takes back the connections it has made when a
\* command fails.
Connect_send_rollback(m, pre, post, model, args) ==
    IF args.exc.k # "none" THEN Raise(m, args.exc)
    ELSE IF Failed(ConnectLoop(m, pre, post, args.params, args.delay, model, args.mode, 1))
    THEN [ConnectLoop(m, pre, post, args.params, args.delay, model, args.mode, 1)
             EXCEPT !.conns = m.conns]
    ELSE Return(ConnectLoop(m, pre, post, args.params, args.delay, model, args.mode, 1), None)

\* A variant of Connect that returns although a command has failed.
Connect_send_quiet(m, pre, post, model, args) ==
    IF args.exc.k # "none" THEN Raise(m, args.exc)
    ELSE [ConnectLoop(m, pre, post, args.params, args.delay, model, args.mode, 1)
            EXCEPT !.exc = NoExc, !.val = None]

Connect_send(m, pre, post, model, args) ==
    IF args.exc.k # "none" THEN Raise(m, args.exc)
    ELSE Return(ConnectLoop(m, pre, post, args.params, args.delay, model, args.mode, 1), None)

\* A variant of Connect that takes pre and post of any lengths.
Connect_f_unchecked(m, pre, post, params, delay, model) ==
    Connect_send(m, pre, post, model, Connect_args(pre, params, delay))

\* Connect(pre, post, params, delay, model)
Connect_f(m, pre, post, params, delay, model) ==
    IF PyLen(pre) # PyLen(post)
    THEN Raise(m, Exc("NESTError", "pre and post have to be the same length", "", 0))
    ELSE Connect_send(m, pre, post, model, Connect_args(pre, params, delay))

Connect(m, pre, post, params, delay, model) ==
    stack_checker_exit(Connect_f(stack_checker_enter(m), pre, post, params, delay, model),
                       "Connect")

\* Weight and delay of ConvergentConnect and DivergentConnect, broadcast
\* into bw and bd for the n nodes of the side named.
WeightDelay(n, bw, bd, side) ==
    IF bw.exc.k # "none" THEN NotSending(bw.exc)
    ELSE IF PyLen(bw.val) # n
         THEN NotSending(Exc("NESTError",
                 IF side = "pre"
                 THEN "weight must be a float, or sequence of floats of length 1 or len(pre)"
                 ELSE "weight must be a float, or sequence of floats of length 1 or len(post)",
                 "", 0))
    ELSE IF bd.exc.k # "none" THEN NotSending(bd.exc)
    ELSE IF PyLen(bd.val) # n
         THEN NotSending(Exc("NESTError",
                 IF side = "pre"
                 THEN "delay must be a float, or sequence of floats of length 1 or len(pre)"
                 ELSE "delay must be a float, or sequence of floats of length 1 or len(post)",
                 "", 0))
    ELSE Sending("wd", bw.val, bd.val)

\* A variant of WeightDelay_args that takes one of weight and delay for
\* neither.
WeightDelay_args_lenient(n, weight, delay, side) ==
    IF weight.k = "none" \/ delay.k = "none" THEN Sending("plain", None, None)
    ELSE WeightDelay(n, broadcast(weight, n, {"float"}, "weight"),
                     broadcast(delay, n, {"float"}, "delay"), side)

WeightDelay_args(n, weight, delay, side) ==
    IF weight.k = "none" /\ delay.k = "none" THEN Sending("plain", None, None)
    ELSE IF weight.k # "none" /\ delay.k # "none"
    THEN WeightDelay(n, broadcast(weight, n, {"float"}, "weight"),
                     broadcast(delay, n, {"float"}, "delay"), side)
    ELSE NotSending(Exc("NESTError", "Both 'weight' and 'delay' have to be given.", "", 0))

\* The loop of ConvergentConnect from the j-th element of post on.
RECURSIVE ConvergentLoop(_, _, _, _, _, _, _, _)
ConvergentLoop(m, pre, post, weight, delay, model, mode, j) ==
    IF j > PyLen(post) \/ Failed(m) THEN m
    ELSE ConvergentLoop(sr(IF mode = "plain" THEN sps(sps(m, pre), post.v[j])
                           ELSE sps(sps(sps(sps(m, pre), post.v[j]), weight), delay),
                           "/%s ConvergentConnect", model),
                        pre, post, weight, delay, model, mode, j + 1)

ConvergentConnect_send(m, pre, post, model, args) ==
    IF args.exc.k # "none" THEN Raise(m, args.exc)
    ELSE Return(ConvergentLoop(m, pre, post, args.params, args.delay, model, args.mode, 1), None)

\* A variant of ConvergentConnect that broadcasts weight and delay to
\* len(post).
ConvergentConnect_f_post(m, pre, post, weight, delay, model) ==
    ConvergentConnect_send(m, pre, post, model, WeightDelay_args(PyLen(post), weight, delay, "pre"))

\* ConvergentConnect(pre, post, weight, delay, model)
ConvergentConnect_f(m, pre, post, weight, delay, model) ==
    ConvergentConnect_send(m, pre, post, model, WeightDelay_args(PyLen(pre), weight, delay, "pre"))

ConvergentConnect(m, pre, post, weight, delay, model) ==
    stack_checker_exit(
        ConvergentConnect_f(stack_checker_enter(m), pre, post, weight, delay, model),
        "ConvergentConnect")

\* The loop of DivergentConnect from the i-th element of pre on.
RECURSIVE DivergentLoop(_, _, _, _, _, _, _, _)
DivergentLoop(m, pre, post, weight, delay, model, mode, i) ==
    IF i > PyLen(pre) \/ Failed(m) THEN m
    ELSE DivergentLoop(sr(IF mode = "plain" THEN sps(sps(m, pre.v[i]), post)
                          ELSE sps(sps(sps(sps(m, pre.v[i]), post), weight), delay),
                          "/%s DivergentConnect", model),
                       pre, post, weight, delay, model, mode, i + 1)

DivergentConnect_send(m, pre, post, model, args) ==
    IF args.exc.k # "none" THEN Raise(m, args.exc)
    ELSE Return(DivergentLoop(m, pre, post, args.params, args.delay, model, args.mode, 1), None)

\* A variant of DivergentConnect that broadcasts weight and delay to
\* len(pre).
DivergentConnect_f_pre(m, pre, post, weight, delay, model) ==
    DivergentConnect_send(m, pre, post, model, WeightDelay_args(PyLen(pre), weight, delay, "post"))

\* DivergentConnect(pre, post, weight, delay, model)
DivergentConnect_f(m, pre, post, weight, delay, model) ==
    DivergentConnect_send(m, pre, post, model, WeightDelay_args(PyLen(post), weight, delay, "post"))

DivergentConnect(m, pre, post, weight, delay, model) ==
    stack_checker_exit(
        DivergentConnect_f(stack_checker_enter(m), pre, post, weight, delay, model),
        "DivergentConnect")

\* GetChildren(subnets, properties, local_only)
GetChildren_f(m, subnets, properties, local_only) ==
    sli_func(m, "/props Set { props %s } Map",
             IF local_only THEN "GetLocalChildren" ELSE "GetGlobalChildren",
             <<subnets, IF properties.k = "none" THEN D(EmptyMap) ELSE properties>>)

GetChildren(m, subnets, properties, local_only) ==
    stack_checker_exit(GetChildren_f(stack_checker_enter(m), subnets, properties, local_only),
                       "GetChildren")

\* What _is_subnet_instance makes of GetChildren: a NESTError is False.
is_subnet_instance_result(m) ==
    IF m.exc.k = "NESTError" THEN [m EXCEPT !.exc = NoExc, !.val = [k |-> "bool", v |-> FALSE]]
    ELSE Return(m, [k |-> "bool", v |-> TRUE])

\* _is_subnet_instance(gids)
is_subnet_instance(m, gids) == is_subnet_instance_result(GetChildren(m, gids, None, FALSE))

\* The weights and delays of a random command: each a sequence of n floats.
Random_weights(n, bw, bd) ==
    IF bw.exc.k # "none" THEN NotSending(bw.exc)
    ELSE IF PyLen(bw.val) # n
    THEN NotSending(Exc("NESTError",
                        "weight must be a float, or sequence of floats of length 1 or n", "", 0))
    ELSE IF bd.exc.k # "none" THEN NotSending(bd.exc)
    ELSE IF PyLen(bd.val) # n
    THEN NotSending(Exc("NESTError",
                        "delay must be a float, or sequence of floats of length 1 or n", "", 0))
    ELSE Sending("wd", bw.val, bd.val)

\* What a random command is called with: nothing more, weights and delays,
\* or nothing at all when only one of weight and delay is given (error).
Random_args(n, weight, delay) ==
    IF weight.k = "none" /\ delay.k = "none" THEN Sending("plain", None, None)
    ELSE IF weight.k # "none" /\ delay.k # "none"
    THEN Random_weights(n, broadcast(weight, n, {"float"}, "weight"),
                        broadcast(delay, n, {"float"}, "delay"))
    ELSE Sending("error", None, None)

\* The command strings of the two functions.
Random_command(name, mode) ==
    IF name = "RandomConvergentConnect"
    THEN IF mode = "plain"
         THEN "/m Set /n Set /pre Set { pre exch n m RandomConvergentConnect } forall"
         ELSE "/m Set /d Set /w Set /n Set /pre Set { pre exch n w d m RandomConvergentConnect } forall"
    ELSE IF mode = "plain"
         THEN "/m Set /n Set /post Set { n post m RandomDivergentConnect } forall"
         ELSE "/m Set /d Set /w Set /n Set /post Set { n post w d m RandomDivergentConnect } forall"

\* The desired options are set; the value is the options there were, without
\* their DefaultOptions entry, or None when no options are given.
Random_set(got, name, options) ==
    IF Failed(got) THEN got
    ELSE Return(sli_func(got, "SetOptions", "", <<Lit(name), options>>),
                D([key \in DOMAIN got.val.v \ {"DefaultOptions"} |-> got.val.v[key]]))

Random_options(m, name, options) ==
    IF options.k = "none" THEN Return(m, None)
    ELSE Random_set(sli_func(m, "GetOptions", "", <<Lit(name)>>), name, options)

\* The connect command; a failure of the broadcast is raised in its place.
Random_body(m, name, outer, inner, n, model, args) ==
    IF Failed(m) THEN m
    ELSE IF args.exc.k # "none" THEN Raise(m, args.exc)
    ELSE IF args.mode = "plain"
    THEN sli_func(m, Random_command(name, "plain"), "", <<outer, inner, n, Lit(model)>>)
    ELSE IF args.mode = "wd"
    THEN sli_func(m, Random_command(name, "wd"), "",
                  <<outer, inner, n, args.params, args.delay, Lit(model)>>)
    ELSE m

\* The end of the function, which an exception raised before does not
\* reach: the old options are set again, then the error of a lone weight or
\* delay is raised.
Random_raise(m, error) ==
    IF Failed(m) THEN m
    ELSE IF error
    THEN Raise(m, Exc("NESTError", "Both 'weight' and 'delay' have to be given.", "", 0))
    ELSE Return(m, None)

Random_restore(m, name, old_options, error) ==
    IF Failed(m) THEN m
    ELSE Random_raise(IF old_options.k # "none"
                      THEN sli_func(m, "SetOptions", "", <<Lit(name), old_options>>)
                      ELSE m, error)

Random_run(set, name, outer, inner, n, model, args) ==
    Random_restore(Random_body(set, name, outer, inner, n, model, args), name, set.val,
                   args.mode = "error")

\* The body the two functions share; outer is the population of which every
\* node gets n partners drawn from inner.
RandomConnect_f(m, name, outer, inner, n, weight, delay, model, options) ==
    IF n.k # "int"
    THEN Raise(m, Exc("TypeError", "number of neurons n should be an integer", "", 0))
    ELSE Random_run(Random_options(m, name, options), name, outer, inner, n, model,
                    Random_args(n.v, weight, delay))

\* RandomConvergentConnect(pre, post, n, weight, delay, model, options)
RandomConvergentConnect_f(m, pre, post, n, weight, delay, model, options) ==
    RandomConnect_f(m, "RandomConvergentConnect", post, pre, n, weight, delay, model, options)

RandomConvergentConnect(m, pre, post, n, weight, delay, model, options) ==
    stack_checker_exit(
        RandomConvergentConnect_f(stack_checker_enter(m), pre, post, n, weight, delay, model,
                                  options),
        "RandomConvergentConnect")

\* RandomDivergentConnect(pre, post, n, weight, delay, model, options)
RandomDivergentConnect_f(m, pre, post, n, weight, delay, model, options) ==
    RandomConnect_f(m, "RandomDivergentConnect", pre, post, n, weight, delay, model, options)

RandomDivergentConnect(m, pre, post, n, weight, delay, model, options) ==
    stack_checker_exit(
        RandomDivergentConnect_f(stack_checker_enter(m), pre, post, n, weight, delay, model,
                                 options),
        "RandomDivergentConnect")

\* set_debug(dbg) and get_debug()
set_debug(m, dbg) == Return([m EXCEPT !.dbg = dbg], None)
get_debug(m) == Return(m, [k |-> "bool", v |-> m.dbg])

\* A function of the caller's decorated with check_stack: it pops `pops`
\* values, pushes `pushes` values and returns a string.
RECURSIVE PopN(_, _)
PopN(m, i) == IF i = 0 THEN m ELSE PopN(spp(m), i - 1)

RECURSIVE PushN(_, _)
PushN(m, i) == IF i = 0 THEN m ELSE PushN(sps(m, I(0)), i - 1)

UserFunction_f(m, pops, pushes) == Return(PushN(PopN(m, pops), pushes), S("result"))

UserFunction(m, pops, pushes) ==
    stack_checker_exit(UserFunction_f(stack_checker_enter(m), pops, pushes), "UserFunction")

\* A function of the caller's decorated with check_stack that sets the
\* debug flag and pushes `pushes` values.
TogglingFunction_f(m, dbg, pushes) == Return(PushN(set_debug(m, dbg), pushes), S("result"))

TogglingFunction(m, dbg, pushes) ==
    stack_checker_exit(TogglingFunction_f(stack_checker_enter(m), dbg, pushes),
                       "TogglingFunction")

(***************************************************************************)
(* The state machine.  A call of the API is one action: it runs the whole  *)
(* function on the machine made of the current state and leaves the        *)
(* machine at its exit, together with the record of the call.  The caller  *)
(* then goes on (Continue) and makes its next call.                        *)
(*   call       the call that has just returned: its arguments, what it    *)
(*              returned or raised, the primitives it issued, the errors   *)
(*              the interpreter signalled, the debug flag and the sizes of *)
(*              stack and network at its entry;                            *)
(*   lastCreate the Create without params that returned last, with the     *)
(*              defaults its model had, while no other call has been made  *)
(*              since;                                                     *)
(*   issued     the node ids that calls of Create have returned so far.    *)
(***************************************************************************)
NoCreate == [fresh |-> FALSE, model |-> "", n |-> 0, gids |-> None, status |-> EmptyMap]
Idle == [op |-> "", args |-> <<>>, ret |-> None, exc |-> NoExc, log |-> <<>>,
         warn |-> <<>>, sig |-> <<>>, dbg |-> FALSE, before |-> 0, after |-> 0,
         nodes0 |-> 0, conns0 |-> 0, issued0 |-> {}, prev |-> NoCreate,
         opts0 |-> EmptyMap]

Init ==
    /\ debug = FALSE
    /\ stack = <<>>
    /\ netNodes = <<>>
    /\ netConns = <<>>
    /\ defaults = [model \in NodeModels |-> [key \in StatusKeys |-> F(0)]]
    /\ call = Idle
    /\ lastCreate = NoCreate
    /\ issued = {}
    /\ netOptions = [name \in OptionCommands |-> DefaultOptions]

\* The machine at the entry of a call.
Enter ==
    [stk |-> stack, nodes |-> netNodes, conns |-> netConns, defaults |-> defaults,
     dbg |-> debug, log |-> <<>>, exc |-> NoExc, val |-> None, warn |-> <<>>,
     sig |-> <<>>, frames |-> <<>>, opts |-> netOptions, draw |-> <<>>]

\* The state a call leaves: the machine at its exit, and its record.
Finish(op, args, m) ==
    /\ debug' = m.dbg
    /\ stack' = m.stk
    /\ netNodes' = m.nodes
    /\ netConns' = m.conns
    /\ defaults' = m.defaults
    /\ netOptions' = m.opts
    /\ call' = [op |-> op, args |-> args, ret |-> m.val, exc |-> m.exc, log |-> m.log,
                warn |-> m.warn, sig |-> m.sig, dbg |-> debug, before |-> Depth(stack),
                after |-> Depth(m.stk), nodes0 |-> Len(netNodes),
                conns0 |-> Len(netConns), issued0 |-> issued, prev |-> lastCreate,
                opts0 |-> netOptions]
    /\ lastCreate' = IF op = "Create" /\ ~Failed(m) /\ args[3].k = "none"
                     THEN [fresh |-> TRUE, model |-> args[1].v, n |-> args[2].v, gids |-> m.val,
                           status |-> defaults[args[1].v]]
                     ELSE NoCreate
    /\ issued' = IF op = "Create" /\ ~Failed(m)
                 THEN issued \cup {m.val.v[i].v : i \in 1..Len(m.val.v)}
                 ELSE issued

\* A call can be made when the caller holds no unread result and the stack
\* has not grown past the bound.
Ready == call.op = "" /\ Depth(stack) <= MaxStack

Continue ==
    /\ call.op # ""
    /\ call' = Idle
    /\ UNCHANGED <<debug, stack, netNodes, netConns, defaults, lastCreate, issued, netOptions>>

\* Values of the arguments.
V1 == D([V_m |-> F(1)])
V2 == D([V_m |-> F(2)])
W2 == D([weight |-> F(2), delay |-> F(3)])
W4 == D([weight |-> F(4), delay |-> F(5)])
Bad == D([nokey |-> F(1)])

\* The connection ids GetConnections and FindConnections return for the
\* connections there are.
ConnIds == T([i \in 1..Len(netConns) |-> T(ConnDatum(netConns[i]).v)])
ConnDicts == T([i \in 1..Len(netConns) |-> DecodeConn(T(ConnDatum(netConns[i]).v))])
ConnSeqs == IF netConns = <<>> THEN {} ELSE {ConnIds, ConnDicts}

CreateCounts == {1, 2}

CreateCall(models, paramsSet) ==
    \E model \in models, n \in CreateCounts, params \in paramsSet :
        /\ Ready
        /\ Len(netNodes) + n <= MaxNodes
        /\ Finish("Create", <<S(model), I(n), params>>, Create(Enter, model, n, params))

SetDefaultsCall(models, argsSet) ==
    \E model \in models, pv \in argsSet :
        /\ Ready
        /\ Finish("SetDefaults", <<S(model), pv[1], pv[2]>>,
                  SetDefaults(Enter, model, pv[1], pv[2]))

SetStatusCall(targets, argsSet) ==
    \E target \in targets, pv \in argsSet :
        /\ Ready
        /\ Finish("SetStatus", <<target, pv[1], pv[2]>>,
                  SetStatus(Enter, target, pv[1], pv[2]))

GetStatusCall(targets, keysSet) ==
    \E target \in targets, keys \in keysSet :
        /\ Ready
        /\ Finish("GetStatus", <<target, keys>>, GetStatus(Enter, target, keys))

ConnectCall(ends, argsSet) ==
    \E e \in ends, pd \in argsSet :
        /\ Ready
        /\ Len(netConns) + PyLen(e[1]) <= MaxConns
        /\ Finish("Connect", <<e[1], e[2], pd[1], pd[2]>>,
                  Connect(Enter, e[1], e[2], pd[1], pd[2], SynModel))

ConvergentConnectCall(ends, argsSet) ==
    \E e \in ends, wd \in argsSet :
        /\ Ready
        /\ netConns = <<>> \/ Len(netConns) + PyLen(e[1]) * PyLen(e[2]) <= MaxConns
        /\ Finish("ConvergentConnect", <<e[1], e[2], wd[1], wd[2]>>,
                  ConvergentConnect(Enter, e[1], e[2], wd[1], wd[2], SynModel))

DivergentConnectCall(ends, argsSet) ==
    \E e \in ends, wd \in argsSet :
        /\ Ready
        /\ netConns = <<>> \/ Len(netConns) + PyLen(e[1]) * PyLen(e[2]) <= MaxConns
        /\ Finish("DivergentConnect", <<e[1], e[2], wd[1], wd[2]>>,
                  DivergentConnect(Enter, e[1], e[2], wd[1], wd[2], SynModel))

\* The draws of a random command on the options in effect: with
\* allow_autapses off no node is drawn for itself, with allow_multapses off
\* no node is drawn twice for one node of outer.
Drawable(opts, outer, inner, n, draw) ==
    /\ ~opts["allow_autapses"].v =>
          \A j \in DOMAIN draw : inner.v[draw[j]] # outer.v[((j - 1) \div n) + 1]
    /\ ~opts["allow_multapses"].v =>
          \A i, j \in DOMAIN draw :
              (i < j /\ (i - 1) \div n = (j - 1) \div n) => draw[i] # draw[j]

\* The options in effect while the command runs.
OptionsDuring(name, given) ==
    IF IsOptionDict(given) THEN Override(netOptions[name], given.v) ELSE netOptions[name]

Draws(outer, inner, n) ==
    IF n.k = "int" THEN [1..(PyLen(outer) * n.v) -> 1..PyLen(inner)] ELSE {<<>>}

RandomConvergentConnectCall(ends, counts, argsSet, optionsSet) ==
    \E e \in ends, n \in counts, wd \in argsSet, given \in optionsSet :
        \E draw \in Draws(e[2], e[1], n) :
            /\ Ready
            /\ netConns = <<>> \/ Len(netConns) + Len(draw) <= MaxConns
            /\ Drawable(OptionsDuring("RandomConvergentConnect", given), e[2], e[1], n.v, draw)
            /\ Finish("RandomConvergentConnect", <<e[1], e[2], n, wd[1], wd[2], given>>,
                      RandomConvergentConnect([Enter EXCEPT !.draw = draw], e[1], e[2], n,
                                              wd[1], wd[2], SynModel, given))

RandomDivergentConnectCall(ends, counts, argsSet, optionsSet) ==
    \E e \in ends, n \in counts, wd \in argsSet, given \in optionsSet :
        \E draw \in Draws(e[1], e[2], n) :
            /\ Ready
            /\ netConns = <<>> \/ Len(netConns) + Len(draw) <= MaxConns
            /\ Drawable(OptionsDuring("RandomDivergentConnect", given), e[1], e[2], n.v, draw)
            /\ Finish("RandomDivergentConnect", <<e[1], e[2], n, wd[1], wd[2], given>>,
                      RandomDivergentConnect([Enter EXCEPT !.draw = draw], e[1], e[2], n,
                                             wd[1], wd[2], SynModel, given))

GetConnectionsCall(sources, targets) ==
    \E source \in sources, target \in targets, syn \in {None, S(SynModel)} :
        /\ Ready
        /\ Finish("GetConnections", <<source, target, syn>>,
                  GetConnections(Enter, source, target, syn))

FindConnectionsCall(sources, targets) ==
    \E source \in sources, target \in targets :
        /\ Ready
        /\ Finish("FindConnections", <<source, target>>,
                  FindConnections(Enter, source, target, None, None))

IsSubnetInstanceCall(gidsSet) ==
    \E gids \in gidsSet :
        /\ Ready
        /\ Finish("_is_subnet_instance", <<gids>>, is_subnet_instance(Enter, gids))

InstallCall ==
    \E module \in {"mymodule"} :
        /\ Ready
        /\ Finish("Install", <<S(module)>>, Install(Enter, module))

UserFunctionCall ==
    \E pops \in 0..MaxStack, pushes \in 0..MaxStack :
        /\ Ready
        /\ Finish("UserFunction", <<I(pops), I(pushes)>>, UserFunction(Enter, pops, pushes))

TogglingFunctionCall ==
    \E dbg \in BOOLEAN, pushes \in 0..1 :
        /\ Ready
        /\ Finish("TogglingFunction", <<Bool(dbg), I(pushes)>>,
                  TogglingFunction(Enter, dbg, pushes))

SetDebugCall ==
    \E dbg \in BOOLEAN :
        /\ Ready
        /\ Finish("set_debug", <<Bool(dbg)>>, set_debug(Enter, dbg))

GetDebugCall ==
    /\ Ready
    /\ Finish("get_debug", <<>>, get_debug(Enter))

(***************************************************************************)
(* Spec: every function, each in all the shapes of its arguments, on one   *)
(* model and few values.                                                   *)
(***************************************************************************)
Ends ==
    {<<T(<<>>), T(<<>>)>>, <<T(<<I(1)>>), T(<<I(2)>>)>>,
     <<T(<<I(1), I(2)>>), T(<<I(1), I(2)>>)>>, <<T(<<I(1), I(2)>>), T(<<I(1)>>)>>,
     <<T(<<I(1)>>), T(<<I(1), I(2)>>)>>}

NodeTargets == {T(<<>>), T(<<I(1)>>), T(<<I(1), I(2)>>), I(1)}

Next ==
    \/ Continue
    \/ CreateCall({"iaf_neuron"}, {None, V1, L(<<V1>>), L(<<V1, V1>>)})
    \/ SetDefaultsCall({"iaf_neuron"}, {<<V1, None>>, <<S("V_m"), F(1)>>})
    \/ SetStatusCall(NodeTargets,
                     {<<V1, None>>, <<L(<<V1, V1>>), None>>, <<S("V_m"), F(1)>>,
                      <<S("V_m"), L(<<F(1), F(1)>>)>>, <<I(7), None>>})
    \/ SetStatusCall(ConnSeqs, {<<W2, None>>, <<L(<<W2, W2>>), None>>})
    \/ GetStatusCall(NodeTargets, {None, S("V_m"), L(<<S("V_m")>>), I(7)})
    \/ GetStatusCall(ConnSeqs, {None, S("weight"), T(<<S("delay"), S("weight")>>)})
    \/ ConnectCall(Ends,
                   {<<None, None>>, <<W2, None>>, <<L(<<W2>>), None>>, <<L(<<W2, W2>>), None>>,
                    <<F(2), F(3)>>, <<T(<<F(2), F(2)>>), T(<<F(3)>>)>>, <<None, F(3)>>})
    \/ ConvergentConnectCall(Ends,
                   {<<None, None>>, <<F(2), F(3)>>, <<T(<<F(2), F(2)>>), T(<<F(3)>>)>>,
                    <<F(2), None>>})
    \/ DivergentConnectCall(Ends,
                   {<<None, None>>, <<F(2), F(3)>>, <<T(<<F(2), F(2)>>), T(<<F(3)>>)>>,
                    <<None, F(3)>>})
    \/ GetConnectionsCall({None, T(<<I(1)>>), I(1)}, {None, T(<<I(2)>>)})
    \/ FindConnectionsCall({T(<<I(1)>>), T(<<I(1), I(2)>>)}, {None, I(2), T(<<I(1), I(2)>>)})
    \/ InstallCall
    \/ UserFunctionCall
    \/ SetDebugCall
    \/ GetDebugCall

Spec == Init /\ [][Next]_vars

(***************************************************************************)
(* SpecBroadcast: broadcast alone, on items of every kind and length.      *)
(***************************************************************************)
Types(kinds) == [k |-> "types", v |-> kinds]

SeqsUpTo(elts, n) == UNION {[1..len -> elts] : len \in 0..n}

BroadcastItems ==
    {None, I(5), F(2), S("static_synapse"), V1}
    \cup {L(s) : s \in SeqsUpTo({F(1), F(2)}, MaxLen)}
    \cup {T(s) : s \in SeqsUpTo({I(1), V1}, MaxLen)}
    \cup {R([i \in 1..len |-> I(first + i - 1)]) : first \in {0, 5}, len \in 0..MaxLen}

BroadcastCall ==
    \E item \in BroadcastItems, length \in 0..MaxLen,
       allowed_types \in {{"int"}, {"float"}, {"dict"}, {"str"}}, name \in {"params", "delay"} :
        /\ call.op = ""
        /\ call' = [Idle EXCEPT !.op = "broadcast",
                                !.args = <<item, I(length), Types(allowed_types), S(name)>>,
                                !.ret = broadcast(item, length, allowed_types, name).val,
                                !.exc = broadcast(item, length, allowed_types, name).exc]
        /\ UNCHANGED <<debug, stack, netNodes, netConns, defaults, lastCreate, issued, netOptions>>

NextBroadcast ==
    \/ BroadcastCall
    \/ Continue

SpecBroadcast == Init /\ [][NextBroadcast]_vars

(***************************************************************************)
(* Properties of broadcast (SpecBroadcast).                                *)
(***************************************************************************)
BroadcastDone == call.op = "broadcast"
BItem == call.args[1]
BLength == call.args[2].v
BTypes == call.args[3].v
BName == call.args[4].v

\* The item is a sequence and not of an allowed type.
BSequence == BroadcastDone /\ ~IsInstance(BItem, BTypes) /\ IsPySeq(BItem)

\* The numbers the message of an exception names.
MessageNumbers(exc) == {exc.num}

\* C4: for N >= 1 and a value v of an allowed type, broadcast returns the
\* N-tuple (v, ..., v).
C4_AtomicReplicated ==
    (BroadcastDone /\ IsInstance(BItem, BTypes) /\ BLength >= 1)
    => /\ call.exc = NoExc
       /\ call.ret = T([i \in 1..BLength |-> BItem])

C4_Witness ==
    /\ BroadcastDone
    /\ BItem = F(2) /\ BTypes = {"float"} /\ BLength = 3
    /\ call.ret = T(<<F(2), F(2), F(2)>>)

\* C5: for a sequence s of length 1 that is not of an allowed type and any
\* N, broadcast returns a sequence of N elements, each the sole element
\* of s.
C5_SingletonReplicated ==
    (BSequence /\ PyLen(BItem) = 1)
    => /\ call.exc = NoExc
       /\ IsPySeq(call.ret)
       /\ PyLen(call.ret) = BLength
       /\ \A i \in 1..BLength : call.ret.v[i] = BItem.v[1]

\* C6: for a sequence s of length N that is not of an allowed type,
\* broadcast returns s as it is.
C6_FullLengthUnchanged ==
    (BSequence /\ PyLen(BItem) = BLength)
    => /\ call.exc = NoExc
       /\ call.ret = BItem

\* C7, as stated: for a sequence whose length is neither 1 nor N, broadcast
\* returns nothing and raises an error that names the argument, N and the
\* length received.
C7_ErrorNamesReceivedLength ==
    (BSequence /\ PyLen(BItem) \notin {1, BLength})
    => /\ call.exc.k = "TypeError"
       /\ call.ret = None
       /\ call.exc.name = BName
       /\ BLength \in MessageNumbers(call.exc)
       /\ PyLen(BItem) \in MessageNumbers(call.exc)

\* C7, amended: for a sequence whose length is neither 1 nor N, broadcast
\* returns nothing and raises a TypeError whose message names the argument
\* and N, and no other number.
C7_ErrorNamesRequiredLength ==
    (BSequence /\ PyLen(BItem) \notin {1, BLength})
    => /\ call.exc.k = "TypeError"
       /\ call.ret = None
       /\ call.exc.name = BName
       /\ MessageNumbers(call.exc) = {BLength}

C7_Witness ==
    /\ BroadcastDone
    /\ BItem = L(<<F(1), F(2)>>) /\ BTypes = {"float"} /\ BLength = 3 /\ BName = "delay"
    /\ call.exc = Exc("TypeError", "'%s' must be a single value, a list with one element or a list with %i elements.", "delay", 3)

(***************************************************************************)
(* SpecCodec: the decoding of connection ids alone, on every flat tuple of *)
(* five numbers.                                                           *)
(***************************************************************************)
HandleFields == {I(id) : id \in 0..MaxNodes} \cup {F(1)}

Handles == {T(<<src, tgt, tt, sm, prt>>) :
              src \in HandleFields, tgt \in HandleFields, tt \in HandleFields,
              sm \in HandleFields, prt \in HandleFields}

DecodeCall ==
    \E c \in Handles :
        /\ call.op = ""
        /\ call' = [Idle EXCEPT !.op = "decode", !.args = <<c>>, !.ret = DecodeConn(c)]
        /\ UNCHANGED <<debug, stack, netNodes, netConns, defaults, lastCreate, issued, netOptions>>

NextCodec ==
    \/ DecodeCall
    \/ Continue

SpecCodec == Init /\ [][NextCodec]_vars

(***************************************************************************)
(* Properties of the decoding (SpecCodec).                                 *)
(***************************************************************************)
Decoded == call.op = "decode"
Flat == call.args[1].v

\* C8, as stated: the record decoded from a flat 5-tuple holds all five
\* fields as integers: source, target, target thread, synapse model id and
\* port.
C8_FiveFieldsKept ==
    Decoded
    => /\ DOMAIN call.ret.v = {"source", "target", "target_thread", "synapse_modelid", "port"}
       /\ call.ret.v["source"] = I(Flat[1].v)
       /\ call.ret.v["target"] = I(Flat[2].v)
       /\ call.ret.v["target_thread"] = I(Flat[3].v)
       /\ call.ret.v["synapse_modelid"] = I(Flat[4].v)
       /\ call.ret.v["port"] = I(Flat[5].v)

\* C8, amended: the record decoded from a flat 5-tuple holds four of the
\* five fields as integers: source, target thread, synapse model id and
\* port.  The target is dropped: tuples that differ in the target only
\* decode to the same record.  The record is a dictionary, which is what
\* the functions that push connections take for a connection.
C8_FourFieldsKept ==
    Decoded
    => /\ DOMAIN call.ret.v = {"source", "target_thread", "synapse_modelid", "port"}
       /\ call.ret.v["source"] = I(Flat[1].v)
       /\ call.ret.v["target_thread"] = I(Flat[3].v)
       /\ call.ret.v["synapse_modelid"] = I(Flat[4].v)
       /\ call.ret.v["port"] = I(Flat[5].v)
       /\ \A tgt \in HandleFields : DecodeConn(T([Flat EXCEPT ![2] = tgt])) = call.ret
       /\ is_sequence_of_connections(T(<<call.ret>>))

C8_Witness ==
    /\ Decoded
    /\ call.args[1] = T(<<I(1), I(2), I(0), F(1), I(2)>>)
    /\ call.ret = D([source |-> I(1), target_thread |-> I(0), synapse_modelid |-> I(1),
                     port |-> I(2)])

(***************************************************************************)
(* SpecStatus: creation of nodes of both models and their status, the      *)
(* defaults of the models changing in between.                             *)
(***************************************************************************)
NextStatus ==
    \/ Continue
    \/ CreateCall(NodeModels, {None, V1, L(<<V1>>), L(<<V1, V2>>), L(<<Bad>>), L(<<V1, Bad>>)})
    \/ SetDefaultsCall(NodeModels, {<<V1, None>>, <<S("V_m"), F(2)>>})
    \/ SetStatusCall(NodeTargets,
                     {<<V2, None>>, <<S("V_m"), F(1)>>, <<S("V_m"), L(<<F(2)>>)>>,
                      <<S("V_m"), T(<<F(1), F(2)>>)>>})
    \/ GetStatusCall(NodeTargets \cup {T(<<I(2)>>)}, {None, S("V_m")})

SpecStatus == Init /\ [][NextStatus]_vars

(***************************************************************************)
(* Properties of Create and GetStatus (SpecStatus).                        *)
(***************************************************************************)
Created == call.op = "Create" /\ call.exc = NoExc
CreatedIds == {call.ret.v[i].v : i \in 1..Len(call.ret.v)}

\* C9: the engine giving ids in sequence, a Create that returns returns the
\* ids of the n nodes it has created, the range from last - n + 1 to last,
\* and none of them has been returned by an earlier Create.
C9_CreateReturnsNewRange ==
    Created
    => /\ call.ret = T([i \in 1..call.args[2].v |-> I(call.nodes0 + i)])
       /\ Len(netNodes) = call.nodes0 + call.args[2].v
       /\ CreatedIds \cap call.issued0 = {}

C9_Witness ==
    /\ Created
    /\ call.issued0 = {1}
    /\ call.ret = T(<<I(2)>>)

\* C10: GetStatus without keys on the ids a Create without params has just
\* returned returns n dictionaries, each the defaults the model had when
\* Create was called.
C10_FreshNodesHaveDefaults ==
    (call.op = "GetStatus" /\ call.prev.fresh /\ call.args[1] = call.prev.gids
        /\ call.args[2] = None)
    => /\ call.exc = NoExc
       /\ call.ret = T([i \in 1..call.prev.n |-> D(call.prev.status)])

C10_Witness ==
    /\ call.op = "GetStatus"
    /\ call.prev.fresh /\ call.prev.n = 2 /\ call.args[1] = call.prev.gids
    /\ call.args[2] = None
    /\ call.ret = T(<<V2, V2>>)

(***************************************************************************)
(* Properties of the stack (Spec).                                         *)
(***************************************************************************)
Balanced == {"Create", "SetStatus", "GetStatus", "Connect", "ConvergentConnect",
             "DivergentConnect", "GetConnections"}
Wrapped == Balanced \cup {"SetDefaults", "FindConnections", "Install", "UserFunction"}

Imbalance(fname, num) ==
    Exc("NESTError", "Function '%s' left %i elements on the stack.", fname, num)
ImbalanceRaised(exc) == exc.fmt = "Function '%s' left %i elements on the stack."

\* C1: whatever has been called before, a call of Create, SetStatus,
\* GetStatus, Connect, ConvergentConnect, DivergentConnect or GetConnections
\* that returns leaves the stack as deep as it was at the entry of the call.
C1_StackBalanced ==
    (call.op \in Balanced /\ call.exc = NoExc) => call.after = call.before

C1_Witness ==
    /\ call.op = "GetStatus" /\ call.exc = NoExc
    /\ call.args[1] = T(<<I(1), I(2)>>)
    /\ call.before = 1 /\ call.after = 1

\* C2: with the debug flag set, a checked function that returns with the
\* stack deeper or less deep than at its entry does not return its result:
\* the error raised names the function and the difference; with the stack
\* as deep as at its entry the result is returned as it is.
C2_GuardRaisesOnLeak ==
    (call.op \in Wrapped /\ call.dbg)
    => /\ call.exc = NoExc => call.after = call.before
       /\ ImbalanceRaised(call.exc)
          => /\ call.after # call.before
             /\ call.exc = Imbalance(call.op, call.after - call.before)
             /\ call.ret = None
       /\ (call.op = "UserFunction" /\ call.args[1].v <= call.before)
          => IF call.args[2].v # call.args[1].v
             THEN /\ call.exc = Imbalance("UserFunction", call.args[2].v - call.args[1].v)
                  /\ call.ret = None
             ELSE /\ call.exc = NoExc
                  /\ call.ret = S("result")

C2_Witness ==
    /\ call.op = "UserFunction" /\ call.dbg
    /\ call.before = 1 /\ call.after = 0
    /\ call.exc = Imbalance("UserFunction", -1)

\* C3: the debug flag is false at first; get_debug returns what the last
\* set_debug has set; a checked function called while the flag is false
\* runs no count, pops nothing but what it pops itself and raises no error
\* for an unbalanced stack.
Issued(log, prim) == Cardinality({i \in 1..Len(log) : log[i] = prim})

C3_Step ==
    /\ call'.op = "set_debug" => debug' = call'.args[1].v
    /\ call'.op # "set_debug" => debug' = debug
    /\ call'.op = "get_debug" => call'.ret = Bool(debug)
    /\ (call'.op \in Wrapped /\ ~debug)
       => /\ Issued(call'.log, Prim("sr", "count")) = 0
          /\ ~ImbalanceRaised(call'.exc)
          /\ call'.op = "UserFunction"
             => /\ Issued(call'.log, Prim("spp", "")) <= call'.args[1].v
                /\ call'.exc = NoExc => Issued(call'.log, Prim("spp", "")) = call'.args[1].v

C3_DebugFlag == ~debug /\ [][C3_Step]_vars

C3_Witness ==
    /\ call.op = "UserFunction" /\ ~call.dbg
    /\ call.before = 1 /\ call.after = 0 /\ call.args[1].v = 1
    /\ call.exc = NoExc /\ call.ret = S("result")

(***************************************************************************)
(* Properties of Create (SpecStatus; the debug flag is off there, so the   *)
(* log of a call holds the primitives of the function alone).              *)
(***************************************************************************)
CreateCalled == call.op = "Create"
CreateN == call.args[2].v
CreateParams == call.args[3]
NewGids == T([i \in 1..CreateN |-> I(call.nodes0 + i)])

\* The primitives of the create step, and those of SetStatus(gids, params)
\* for params a list of len(gids) dictionaries.
CreateStep(cmd) == <<Given("sps", I(CreateN)), Prim("sr", cmd), Prim("spp", "")>>
SetStatusStep(gids, params) ==
    <<Given("sps", gids), Given("sps", params), Prim("sr", "2 arraystore"),
      Prim("sr", "Transpose { arrayload pop SetStatus } forall")>>

\* C11: Create pushes a dictionary once, before n, and runs the command
\* that takes it, without SetStatus; a list of dictionaries is not pushed
\* before the command: after the result has been popped it is broadcast to
\* n and set by one SetStatus on the new ids, or refused when it has
\* neither one nor n elements; without params only n is pushed.
C11_CreateDispatch ==
    CreateCalled
    => CASE CreateParams.k = "dict" ->
              call.log = <<Given("sps", CreateParams)>> \o CreateStep("/%s 3 1 roll exch Create")
         [] CreateParams.k = "none" -> call.log = CreateStep("/%s exch Create")
         [] CreateParams.k = "list" ->
              IF Len(CreateParams.v) = 1
              THEN call.log = CreateStep("/%s exch Create")
                                \o SetStatusStep(NewGids, L([i \in 1..CreateN |-> CreateParams.v[1]]))
              ELSE IF Len(CreateParams.v) = CreateN
              THEN call.log = CreateStep("/%s exch Create") \o SetStatusStep(NewGids, CreateParams)
              ELSE /\ call.log = CreateStep("/%s exch Create")
                   /\ call.exc.k = "TypeError"

C11_Witness ==
    /\ CreateCalled /\ call.exc = NoExc
    /\ CreateParams = L(<<V1, V2>>)
    /\ call.ret = T(<<I(1), I(2)>>)
    /\ Len(call.log) = 7
    /\ netNodes[1].status = V1.v /\ netNodes[2].status = V2.v

\* SetStatus of the new ids to the params of the Create that has returned
\* them, called again on the state that Create has left.
SetStatusAgain == SetStatus(Enter, NewGids, CreateParams, None)
SetStatusFails == CreateCalled /\ CreateParams.k = "list" /\ Failed(SetStatusAgain)

Commands(log) == {log[i].c : i \in {j \in 1..Len(log) : log[j].p = "sr"}}

\* C12: when Create is given a list of dictionaries that SetStatus refuses,
\* the n nodes it has created stay in the network and no other command is
\* run; the new ids are given in a warning, the error of SetStatus is
\* raised again as it is, and Create returns nothing.
C12_CreatePartialFailure ==
    SetStatusFails
    => /\ Len(netNodes) = call.nodes0 + CreateN
       /\ \A i \in 1..CreateN : netNodes[call.nodes0 + i].model = call.args[1].v
       /\ Commands(call.log) \subseteq {"/%s exch Create", "2 arraystore",
                                        "Transpose { arrayload pop SetStatus } forall"}
       /\ call.warn = <<NewGids>>
       /\ call.exc = SetStatusAgain.exc
       /\ call.ret = None

C12_Witness ==
    /\ SetStatusFails
    /\ CreateParams = L(<<V1, Bad>>) /\ CreateN = 2 /\ call.nodes0 = 0
    /\ netNodes[1].status = V1.v
    /\ call.warn = <<T(<<I(1), I(2)>>)>>
    /\ call.exc.k = "NESTError"

\* The values the message of an exception is formatted with.
MessageValues(exc) == {S(exc.name), I(exc.num)}

\* C13, as stated: when SetStatus fails in Create after the nodes have been
\* created, the error raised to the caller carries the ids of the nodes.
C13_ErrorCarriesIds ==
    SetStatusFails => NewGids \in MessageValues(call.exc)

\* C13, amended: when SetStatus fails in Create after the nodes have been
\* created, the ids of the nodes are given in a warning; the error raised
\* to the caller is the one of SetStatus, which names the argument and the
\* required length, or the command that failed, and no id.
C13_IdsInWarningOnly ==
    SetStatusFails
    => /\ call.warn = <<NewGids>>
       /\ NewGids \notin MessageValues(call.exc)
       /\ call.exc \in
            {Exc("TypeError", "'%s' must be a single value, a list with one element or a list with %i elements.", "params", CreateN),
             Exc("NESTError", "UnaccessedDictionaryEntry",
                 "Transpose { arrayload pop SetStatus } forall", 0)}

C13_Witness ==
    /\ SetStatusFails
    /\ CreateParams = L(<<V1, V2>>) /\ CreateN = 1 /\ call.nodes0 = 1
    /\ call.warn = <<T(<<I(2)>>)>>
    /\ call.exc.k = "TypeError"
    /\ Len(netNodes) = 2

(***************************************************************************)
(* Properties of SetStatus and GetStatus (Spec).                           *)
(***************************************************************************)
SetStatusCalled == call.op = "SetStatus"
NoTargets == IsPySeq(call.args[1]) /\ PyLen(call.args[1]) = 0

\* The primitives of the guard around a function that issues none.
GuardOnly == <<Prim("sr", "count"), Prim("spp", ""), Prim("sr", "count"), Prim("spp", "")>>

\* C14, as stated: SetStatus on no targets raises no error and issues no
\* primitive between its call and its return, whatever params and val.
C14_EmptyIssuesNothing ==
    (SetStatusCalled /\ NoTargets) => (call.exc = NoExc /\ call.log = <<>>)

\* C14, amended: SetStatus on no targets raises no error, returns nothing
\* and leaves stack and network as they are, whatever params and val; with
\* the debug flag off no primitive is issued between its call and its
\* return, with the flag on the guard counts and pops the depth twice and
\* nothing else is issued.
C14_EmptyIsNoOp ==
    (SetStatusCalled /\ NoTargets)
    => /\ call.exc = NoExc /\ call.ret = None
       /\ call.after = call.before
       /\ Len(netNodes) = call.nodes0 /\ Len(netConns) = call.conns0
       /\ call.log = IF call.dbg THEN GuardOnly ELSE <<>>

C14_Witness ==
    /\ SetStatusCalled /\ NoTargets
    /\ call.args[2] = I(7)
    /\ call.dbg /\ call.before = 1
    /\ call.log = GuardOnly

(***************************************************************************)
(* Properties of SetStatus with a value (SpecStatus).                      *)
(***************************************************************************)
\* SetStatus(targets, name, val) on one target or more.
ByName ==
    /\ SetStatusCalled
    /\ IsPySeq(call.args[1]) /\ PyLen(call.args[1]) > 0
    /\ call.args[2].k = "str" /\ call.args[3].k # "none"
SetTargets == call.args[1]
SetName == call.args[2].v
SetVal == call.args[3]
SetN == PyLen(SetTargets)

\* The value of the i-th target, for a val of one of the three shapes.
ValueFor(i) ==
    IF ~IsPySeq(SetVal) THEN SetVal
    ELSE IF Len(SetVal.v) = 1 THEN SetVal.v[1]
    ELSE SetVal.v[i]
ValFits == ~IsPySeq(SetVal) \/ Len(SetVal.v) \in {1, SetN}

\* The dictionaries SetStatus pushes: a tuple of them for one value, a
\* list for a sequence of values.
ExpandedParams ==
    [k |-> IF IsPySeq(SetVal) THEN "list" ELSE "tuple",
     v |-> [i \in 1..SetN |-> D([key \in {SetName} |-> ValueFor(i)])]]

\* C15: SetStatus(targets, name, val) sets target i to {name: v_i}: val
\* itself when it is one value, its only element when it is a sequence of
\* one, its i-th element when it is a sequence of len(targets); a sequence
\* of any other length is refused before anything is pushed.
C15_ValueBroadcast ==
    ByName
    => IF ValFits
       THEN /\ call.log = SetStatusStep(SetTargets, ExpandedParams)
            /\ call.exc = NoExc
               => \A i \in 1..SetN : netNodes[SetTargets.v[i].v].status[SetName] = ValueFor(i)
       ELSE /\ call.log = <<>>
            /\ call.exc = Exc("TypeError", "'%s' must be a single value, a list with one element or a list with %i elements.", "params", SetN)

C15_Witness ==
    /\ ByName /\ call.exc = NoExc
    /\ SetTargets = T(<<I(1), I(2)>>) /\ SetVal = T(<<F(1), F(2)>>)
    /\ netNodes[1].status = V1.v /\ netNodes[2].status = V2.v

(***************************************************************************)
(* Properties of GetStatus (Spec).                                         *)
(***************************************************************************)
GetStatusCalled == call.op = "GetStatus" /\ IsPySeq(call.args[1])
GetTargets == call.args[1]
GetKeys == call.args[2]

\* The connection a connection id stands for: the one of its source and
\* port.
IdSource(t) == IF t.k = "dict" THEN t.v["source"].v ELSE t.v[1].v
IdPort(t) == IF t.k = "dict" THEN t.v["port"].v ELSE t.v[5].v
ConnOf(t) ==
    netConns[CHOOSE i \in 1..Len(netConns) :
                netConns[i].source = IdSource(t) /\ netConns[i].port = IdPort(t)]

\* The parameters of a target: of a node, or of a connection.
StatusOf(t) ==
    IF t.k = "int" THEN netNodes[t.v].status
    ELSE [source |-> I(ConnOf(t).source), target |-> I(ConnOf(t).target),
          weight |-> F(ConnOf(t).weight), delay |-> F(ConnOf(t).delay)]

Exists(t) ==
    IF t.k = "int" THEN t.v \in 1..Len(netNodes)
    ELSE \E i \in 1..Len(netConns) :
            netConns[i].source = IdSource(t) /\ netConns[i].port = IdPort(t)

\* What GetStatus returns for one target.
EntryOf(t) ==
    IF GetKeys.k = "none" THEN D(StatusOf(t))
    ELSE IF GetKeys.k = "str" THEN StatusOf(t)[GetKeys.v]
    ELSE T([j \in 1..Len(GetKeys.v) |-> StatusOf(t)[GetKeys.v[j].v]])

\* C16: GetStatus on one target or more returns one entry for each, in
\* their order: the whole dictionary without keys, the value of the key for
\* one key, the values in the order of the keys for a sequence of keys;
\* keys that are neither a name nor an iterable give a TypeError; on no
\* targets the targets are returned as they are.
C16_GetStatusShapes ==
    GetStatusCalled
    => IF PyLen(GetTargets) = 0 THEN call.exc = NoExc /\ call.ret = GetTargets
       ELSE IF GetKeys.k = "int"
       THEN call.exc = Exc("TypeError", "keys should be either a string or an iterable", "", 0)
       ELSE /\ (\A i \in 1..PyLen(GetTargets) : Exists(GetTargets.v[i])) => call.exc = NoExc
            /\ call.exc = NoExc
               => call.ret = T([i \in 1..PyLen(GetTargets) |-> EntryOf(GetTargets.v[i])])

C16_Witness ==
    /\ GetStatusCalled /\ call.exc = NoExc
    /\ PyLen(GetTargets) = 2 /\ GetTargets.v[1].k = "dict"
    /\ GetKeys = T(<<S("delay"), S("weight")>>)
    /\ call.ret.v[1] = T(<<F(3), F(2)>>)

(***************************************************************************)
(* SpecConnect: Connect in all its variants on new nodes, pre and post of  *)
(* equal and of different lengths, and the connections it leaves.  The     *)
(* debug flag is off, so the log of a call holds the primitives of the     *)
(* function alone.                                                         *)
(***************************************************************************)
ConnectPre == {T(<<>>), T(<<I(1)>>), T(<<I(2)>>), T(<<I(1), I(2)>>)}
ConnectPost == ConnectPre \cup {T(<<I(2), I(1)>>)}
ConnectEnds == {<<pre, post>> : pre \in ConnectPre, post \in ConnectPost}

ConnectArgs ==
    {<<None, None>>, <<None, F(3)>>,
     <<W2, None>>, <<L(<<W4>>), None>>, <<L(<<W2, W4>>), None>>, <<L(<<W2, W2, W2>>), None>>,
     <<F(2), F(3)>>, <<T(<<F(4)>>), T(<<F(5)>>)>>, <<L(<<F(2), F(4)>>), L(<<F(3), F(5)>>)>>,
     <<F(2), L(<<F(3), F(3), F(3)>>)>>}

NextConnect ==
    \/ Continue
    \/ CreateCall({"iaf_neuron"}, {None})
    \/ ConnectCall(ConnectEnds, ConnectArgs)
    \/ GetConnectionsCall({None, T(<<I(1)>>), T(<<I(1), I(2)>>)}, {None, T(<<I(2)>>)})
    \/ FindConnectionsCall({T(<<I(1)>>), T(<<I(1), I(2)>>)}, {None})

SpecConnect == Init /\ [][NextConnect]_vars

(***************************************************************************)
(* Properties of Connect (SpecConnect).                                    *)
(***************************************************************************)
ConnectCalled == call.op = "Connect"
Pre == call.args[1]
Post == call.args[2]
ConnectParams == call.args[3]
ConnectDelay == call.args[4]
Paired == ConnectCalled /\ PyLen(Pre) = PyLen(Post)

\* C17: Connect with pre and post of different lengths fails, whatever
\* params and delay, before anything is pushed, and makes no connection.
C17_LengthMismatchFails ==
    (ConnectCalled /\ PyLen(Pre) # PyLen(Post))
    => /\ call.exc = Exc("NESTError", "pre and post have to be the same length", "", 0)
       /\ call.ret = None
       /\ call.log = <<>>
       /\ Len(netConns) = call.conns0

C17_Witness ==
    /\ ConnectCalled
    /\ Pre = T(<<I(1), I(2)>>) /\ Post = T(<<I(1)>>)
    /\ ConnectParams = F(2) /\ ConnectDelay = F(3)
    /\ Len(netNodes) = 2
    /\ call.exc.k = "NESTError"

\* The primitives of a log by name, and those of one pair with k values
\* pushed before the command.
Shape(log) == [i \in 1..Len(log) |-> log[i].p]
PairShape(k) == [j \in 1..k |-> "sps"] \o <<"sr">>
IsPrefix(a, b) == Len(a) <= Len(b) /\ SubSeq(b, 1, Len(a)) = a

\* The number of values Connect pushes for a pair: pre and post, with the
\* dictionary, or with weight and delay.
Pushes ==
    IF ConnectParams.k = "none" THEN 2
    ELSE IF ConnectDelay.k = "none" THEN 3 ELSE 4

\* C18: Connect on pre and post of one length takes the variant that params
\* and delay select: without both two values are pushed for every pair,
\* with params alone three, with both four, each time followed by the one
\* command; delay without params fails before anything is pushed and
\* makes no connection.
C18_VariantSelection ==
    Paired
    => IF ConnectParams.k = "none" /\ ConnectDelay.k # "none"
       THEN /\ call.exc = Exc("NESTError", "Both 'params' and 'delay' have to be given.", "", 0)
            /\ call.log = <<>>
            /\ Len(netConns) = call.conns0
       ELSE /\ IsPrefix(Shape(call.log), Rep(PyLen(Pre), PairShape(Pushes), <<>>))
            /\ Commands(call.log) \subseteq {"/%s Connect"}
            /\ call.exc = NoExc
               => /\ Shape(call.log) = Rep(PyLen(Pre), PairShape(Pushes), <<>>)
                  /\ Len(netConns) = call.conns0 + PyLen(Pre)

C18_Witness ==
    /\ Paired
    /\ Pre = T(<<I(1)>>) /\ Post = T(<<I(2)>>)
    /\ ConnectParams = None /\ ConnectDelay = F(3)
    /\ Len(netNodes) = 2
    /\ call.exc.k = "NESTError"
    /\ netConns = <<>>

\* Connect(pre, post) without params and delay that has returned, on nodes
\* that had no connection.
PlainOnFresh ==
    /\ Paired /\ call.exc = NoExc
    /\ ConnectParams.k = "none" /\ ConnectDelay.k = "none"
    /\ call.conns0 = 0

\* The queries made on the state Connect has left: the connections of the
\* sources pre, and the targets of the connections found for pre.
ConnectionsOfPre == GetConnections(Enter, Pre, None, None)
FoundForPre == FindConnections(Enter, Pre, None, None, None)
TargetsOfPre == GetStatus(Enter, FoundForPre.val, S("target"))

\* C19: after Connect(pre, post) without params on new nodes, the
\* connections of the sources pre are len(pre), the i-th from pre[i] to
\* post[i]: their targets are post, in its order.
C19_PairwiseTargets ==
    PlainOnFresh
    => /\ ConnectionsOfPre.exc = NoExc
       /\ PyLen(ConnectionsOfPre.val) = PyLen(Pre)
       /\ \A i \in 1..PyLen(Pre) :
            /\ ConnectionsOfPre.val.v[i].v[1] = Pre.v[i]
            /\ ConnectionsOfPre.val.v[i].v[2] = Post.v[i]
       /\ FoundForPre.exc = NoExc /\ PyLen(FoundForPre.val) = PyLen(Pre)
       /\ TargetsOfPre.exc = NoExc /\ TargetsOfPre.val = T(Post.v)

C19_Witness ==
    /\ PlainOnFresh
    /\ Pre = T(<<I(1), I(2)>>) /\ Post = T(<<I(2), I(1)>>)
    /\ Len(netConns) = 2
    /\ TargetsOfPre.val = T(<<I(2), I(1)>>)

\* Connect with params, or with params and delay, each one value or a
\* sequence of one or of len(pre) values.
Fits(x) == ~IsPySeq(x) \/ Len(x.v) \in {1, PyLen(Pre)}
WithParams ==
    /\ Paired /\ ConnectParams.k # "none" /\ Fits(ConnectParams)
    /\ ConnectDelay.k # "none" => Fits(ConnectDelay)

\* The element of x for the i-th pair.
ItemFor(x, i) ==
    IF ~IsPySeq(x) THEN x
    ELSE IF Len(x.v) = 1 THEN x.v[1] ELSE x.v[i]

\* Weight and delay of the i-th pair.
WeightFor(i) ==
    IF ConnectDelay.k = "none" THEN ItemFor(ConnectParams, i).v["weight"].v
    ELSE ItemFor(ConnectParams, i).v
DelayFor(i) ==
    IF ConnectDelay.k = "none" THEN ItemFor(ConnectParams, i).v["delay"].v
    ELSE ItemFor(ConnectDelay, i).v

\* The primitives of the pairs one after the other: for each, pre[i],
\* post[i], the element of params and, if there is one, of delay are
\* pushed and the command is run.
PairPrimitive(i, pos) ==
    IF pos = Pushes + 1 THEN Prim("sr", "/%s Connect")
    ELSE IF pos = 1 THEN Given("sps", Pre.v[i])
    ELSE IF pos = 2 THEN Given("sps", Post.v[i])
    ELSE IF pos = 3 THEN Given("sps", ItemFor(ConnectParams, i))
    ELSE Given("sps", ItemFor(ConnectDelay, i))
PairsLog ==
    [j \in 1..(PyLen(Pre) * (Pushes + 1)) |->
        PairPrimitive(((j - 1) \div (Pushes + 1)) + 1, ((j - 1) % (Pushes + 1)) + 1)]

\* C20: Connect with params, or with weight and delay, runs one command for
\* every pair (pre[i], post[i]), in their order, on the i-th element of
\* what params, or weight and delay, broadcast to; the i-th connection
\* made has that weight and that delay.
C20_PairwiseParams ==
    WithParams
    => /\ IsPrefix(call.log, PairsLog)
       /\ (\A i \in 1..PyLen(Pre) : Pre.v[i].v <= call.nodes0 /\ Post.v[i].v <= call.nodes0)
          => call.exc = NoExc
       /\ call.exc = NoExc
          => /\ call.log = PairsLog
             /\ Len(netConns) = call.conns0 + PyLen(Pre)
             /\ \A i \in 1..PyLen(Pre) :
                  /\ netConns[call.conns0 + i].source = Pre.v[i].v
                  /\ netConns[call.conns0 + i].target = Post.v[i].v
                  /\ netConns[call.conns0 + i].weight = WeightFor(i)
                  /\ netConns[call.conns0 + i].delay = DelayFor(i)

C20_Witness ==
    /\ WithParams /\ call.exc = NoExc
    /\ Pre = T(<<I(1), I(2)>>) /\ Post = T(<<I(2), I(1)>>)
    /\ ConnectParams = L(<<F(2), F(4)>>) /\ ConnectDelay = L(<<F(3), F(5)>>)
    /\ netConns[1].weight = 2 /\ netConns[1].delay = 3
    /\ netConns[2].weight = 4 /\ netConns[2].delay = 5

(***************************************************************************)
(* SpecFan: ConvergentConnect and DivergentConnect in all their variants,  *)
(* on neurons and on voltmeters (which take no connection), and the        *)
(* connections they leave.  The debug flag is off.                         *)
(***************************************************************************)
FanSides == {T(<<>>), T(<<I(1)>>), T(<<I(2)>>), T(<<I(1), I(2)>>), T(<<I(2), I(1)>>)}
FanEnds == {<<pre, post>> : pre \in FanSides, post \in FanSides}

FanArgs ==
    {<<None, None>>, <<F(2), None>>, <<None, F(3)>>, <<L(<<F(2), F(4)>>), None>>,
     <<F(2), F(3)>>, <<T(<<F(4)>>), L(<<F(5)>>)>>, <<L(<<F(2), F(4)>>), L(<<F(3), F(5)>>)>>,
     <<F(2), L(<<F(3), F(3), F(3)>>)>>}

NextFan ==
    \/ Continue
    \/ CreateCall(NodeModels, {None})
    \/ ConvergentConnectCall(FanEnds, FanArgs)
    \/ DivergentConnectCall(FanEnds, FanArgs)
    \/ GetConnectionsCall({None, T(<<I(1)>>)}, {None, T(<<I(2)>>)})

SpecFan == Init /\ [][NextFan]_vars

(***************************************************************************)
(* Properties of ConvergentConnect and DivergentConnect (SpecFan).         *)
(***************************************************************************)
Weight == call.args[3]
Delay == call.args[4]

\* Both weight and delay given, or neither.
Together == (Weight.k = "none") = (Delay.k = "none")

\* x is one value or a sequence of one or of n values.
FitsTo(x, n) == x.k = "none" \/ ~IsPySeq(x) \/ Len(x.v) \in {1, n}

\* The nodes of pre and post exist and those of post take connections.
Connectable ==
    /\ \A i \in 1..PyLen(Pre) : Pre.v[i].v <= call.nodes0
    /\ \A j \in 1..PyLen(Post) :
         Post.v[j].v <= call.nodes0 /\ netNodes[Post.v[j].v].model # "voltmeter"

\* The i-th of the values x broadcasts to; 1 is the weight and the delay of
\* a connection made without them.
ValueOf(x, i) == IF x.k = "none" THEN 1 ELSE ItemFor(x, i).v

\* What a value broadcasts to for n nodes, element by element.
Spread(x, n) == [i \in 1..n |-> ItemFor(x, i)]

\* The number of primitives of one command: its pushes and the command.
FanStride == IF Weight.k = "none" THEN 3 ELSE 5

ConvergentCalled == call.op = "ConvergentConnect"

\* C21: ConvergentConnect that returns has made len(pre) * len(post)
\* connections, for every element of post in turn one from every element of
\* pre; weight and delay are pushed as sequences of len(pre) values, and
\* the connection from pre[i] has the i-th weight and the i-th delay.  It
\* returns whenever the nodes can be connected and weight and delay fit
\* len(pre).
C21_ConvergentAllToEach ==
    (ConvergentCalled /\ Together)
    => /\ (Connectable /\ FitsTo(Weight, PyLen(Pre)) /\ FitsTo(Delay, PyLen(Pre)))
          => call.exc = NoExc
       /\ call.exc = NoExc
          => /\ Len(netConns) = call.conns0 + PyLen(Pre) * PyLen(Post)
             /\ Len(call.log) = PyLen(Post) * FanStride
             /\ \A j \in 1..PyLen(Post) :
                  /\ call.log[(j - 1) * FanStride + 1] = Given("sps", Pre)
                  /\ call.log[(j - 1) * FanStride + 2] = Given("sps", Post.v[j])
                  /\ call.log[j * FanStride] = Prim("sr", "/%s ConvergentConnect")
                  /\ Weight.k # "none"
                     => /\ call.log[(j - 1) * FanStride + 3].x.v = Spread(Weight, PyLen(Pre))
                        /\ call.log[(j - 1) * FanStride + 4].x.v = Spread(Delay, PyLen(Pre))
                  /\ \A i \in 1..PyLen(Pre) :
                       /\ netConns[call.conns0 + (j - 1) * PyLen(Pre) + i].source = Pre.v[i].v
                       /\ netConns[call.conns0 + (j - 1) * PyLen(Pre) + i].target = Post.v[j].v
                       /\ netConns[call.conns0 + (j - 1) * PyLen(Pre) + i].weight
                            = ValueOf(Weight, i)
                       /\ netConns[call.conns0 + (j - 1) * PyLen(Pre) + i].delay
                            = ValueOf(Delay, i)

C21_Witness ==
    /\ ConvergentCalled /\ call.exc = NoExc
    /\ Pre = T(<<I(1), I(2)>>) /\ Post = T(<<I(2), I(1)>>)
    /\ Weight = L(<<F(2), F(4)>>) /\ Delay = L(<<F(3), F(5)>>)
    /\ Len(netConns) = 4
    /\ netConns[1].source = 1 /\ netConns[1].target = 2 /\ netConns[1].weight = 2
    /\ netConns[2].source = 2 /\ netConns[2].target = 2 /\ netConns[2].delay = 5
    /\ netConns[3].source = 1 /\ netConns[3].target = 1 /\ netConns[3].weight = 2
    /\ netConns[4].source = 2 /\ netConns[4].target = 1 /\ netConns[4].delay = 5

DivergentCalled == call.op = "DivergentConnect"

\* C22: ConvergentConnect and DivergentConnect with one of weight and delay
\* but not the other fail with the error that both have to be given,
\* whatever pre and post (empty ones too); nothing is pushed or run and no
\* connection is made.
C22_WeightDelayTogether ==
    ((ConvergentCalled \/ DivergentCalled) /\ ~Together)
    => /\ call.exc = Exc("NESTError", "Both 'weight' and 'delay' have to be given.", "", 0)
       /\ call.ret = None
       /\ call.log = <<>>
       /\ Len(netConns) = call.conns0

C22_Witness ==
    /\ DivergentCalled
    /\ Pre = T(<<>>) /\ Post = T(<<>>)
    /\ Weight = None /\ Delay = F(3)
    /\ call.exc.k = "NESTError"

\* The targets of the connections GetConnections returns for the source s,
\* queried on the state the call has left.
TargetsOf(s) ==
    LET found == GetConnections(Enter, T(<<s>>), None, None)
    IN  [k \in 1..PyLen(found.val) |-> found.val.v[k].v[2]]

\* C23: DivergentConnect that returns has run one command for every element
\* of pre, in the order of pre, and made one connection from it to every
\* element of post; weight and delay are pushed as sequences of len(post)
\* values, and the connection to post[j] has the j-th weight and the j-th
\* delay.  On nodes without connections the targets of the connections of
\* one source are post, in its order.  It returns whenever the nodes can be
\* connected and weight and delay fit len(post).
C23_DivergentEachToAll ==
    (DivergentCalled /\ Together)
    => /\ (Connectable /\ FitsTo(Weight, PyLen(Post)) /\ FitsTo(Delay, PyLen(Post)))
          => call.exc = NoExc
       /\ call.exc = NoExc
          => /\ Len(netConns) = call.conns0 + PyLen(Pre) * PyLen(Post)
             /\ Len(call.log) = PyLen(Pre) * FanStride
             /\ \A i \in 1..PyLen(Pre) :
                  /\ call.log[(i - 1) * FanStride + 1] = Given("sps", Pre.v[i])
                  /\ call.log[(i - 1) * FanStride + 2] = Given("sps", Post)
                  /\ call.log[i * FanStride] = Prim("sr", "/%s DivergentConnect")
                  /\ Weight.k # "none"
                     => /\ call.log[(i - 1) * FanStride + 3].x.v = Spread(Weight, PyLen(Post))
                        /\ call.log[(i - 1) * FanStride + 4].x.v = Spread(Delay, PyLen(Post))
                  /\ \A j \in 1..PyLen(Post) :
                       /\ netConns[call.conns0 + (i - 1) * PyLen(Post) + j].source = Pre.v[i].v
                       /\ netConns[call.conns0 + (i - 1) * PyLen(Post) + j].target = Post.v[j].v
                       /\ netConns[call.conns0 + (i - 1) * PyLen(Post) + j].weight
                            = ValueOf(Weight, j)
                       /\ netConns[call.conns0 + (i - 1) * PyLen(Post) + j].delay
                            = ValueOf(Delay, j)
                  /\ (call.conns0 = 0 /\ \A h \in 1..PyLen(Pre) : Pre.v[h] = Pre.v[i] => h = i)
                     => TargetsOf(Pre.v[i]) = Post.v

C23_Witness ==
    /\ DivergentCalled /\ call.exc = NoExc
    /\ Pre = T(<<I(2), I(1)>>) /\ Post = T(<<I(2), I(1)>>)
    /\ Weight = L(<<F(2), F(4)>>) /\ Delay = L(<<F(3), F(5)>>)
    /\ Len(netConns) = 4
    /\ netConns[1].source = 2 /\ netConns[1].target = 2 /\ netConns[1].weight = 2
    /\ netConns[2].source = 2 /\ netConns[2].target = 1 /\ netConns[2].delay = 5
    /\ netConns[3].source = 1 /\ netConns[3].target = 2 /\ netConns[3].weight = 2
    /\ netConns[4].source = 1 /\ netConns[4].target = 1 /\ netConns[4].delay = 5
    /\ TargetsOf(I(1)) = <<I(2), I(1)>>

(***************************************************************************)
(* Properties of GetConnections (SpecConnect).                             *)
(***************************************************************************)
GetConnectionsCalled == call.op = "GetConnections"
FilterNames == {"source", "target", "synapse_model"}
FilterArg(key) ==
    IF key = "source" THEN call.args[1]
    ELSE IF key = "target" THEN call.args[2] ELSE call.args[3]
FiltersGiven == {key \in FilterNames : FilterArg(key).k # "none"}

\* The connections there are that pass every filter given; all are of the
\* one synapse model.
Among(n, x) == x.k = "none" \/ \E i \in 1..Len(x.v) : x.v[i] = I(n)
Matching ==
    {i \in 1..Len(netConns) :
        /\ Among(netConns[i].source, FilterArg("source"))
        /\ Among(netConns[i].target, FilterArg("target"))}

\* C24: GetConnections pushes one dictionary whose keys are those of
\* source, target and synapse_model that are given (none when none is),
\* each with its argument (the synapse model as a literal), runs the one
\* command and pops the one result; the result holds, once each, the
\* connections that pass all the filters given.
C24_GetConnectionsFilter ==
    GetConnectionsCalled
    => /\ call.exc = NoExc
       /\ Len(call.log) = 3
       /\ call.log[1].p = "sps" /\ call.log[1].x.k = "dict"
       /\ DOMAIN call.log[1].x.v = FiltersGiven
       /\ \A key \in FiltersGiven :
            call.log[1].x.v[key] = IF key = "synapse_model" THEN Lit(FilterArg(key).v)
                                   ELSE FilterArg(key)
       /\ call.log[2] = Prim("sr", "GetConnections")
       /\ call.log[3] = Prim("spp", "")
       /\ PyLen(call.ret) = Cardinality(Matching)
       /\ {call.ret.v[k] : k \in 1..PyLen(call.ret)}
            = {T(ConnDatum(netConns[i]).v) : i \in Matching}
       /\ call.after = call.before /\ Len(netConns) = call.conns0

C24_Witness ==
    /\ GetConnectionsCalled
    /\ FiltersGiven = FilterNames
    /\ call.args[1] = T(<<I(1), I(2)>>) /\ call.args[2] = T(<<I(2)>>)
    /\ Len(netConns) = 2
    /\ netConns[1].target = 2 /\ netConns[2].target = 1
    /\ PyLen(call.ret) = 1

(***************************************************************************)
(* SpecErrors: the functions on arguments they refuse and on nodes the     *)
(* interpreter refuses (nodes there are not, voltmeters as targets, status *)
(* entries there are not), with the debug flag on and off.                 *)
(***************************************************************************)
ErrSides == {T(<<I(1)>>), T(<<I(2)>>), T(<<I(1), I(2)>>), T(<<I(2), I(1)>>)}
ErrEnds == {<<pre, post>> : pre \in ErrSides, post \in ErrSides}
ErrWeights ==
    {<<None, None>>, <<F(2), F(3)>>, <<F(2), None>>, <<L(<<F(2), F(2), F(2)>>), F(3)>>}

NextErrors ==
    \/ Continue
    \/ SetDebugCall
    \/ CreateCall(NodeModels, {None, L(<<Bad>>)})
    \/ ConnectCall(ErrEnds, ErrWeights \cup {<<W2, None>>, <<L(<<W2, W2, W2>>), None>>, <<None, F(3)>>})
    \/ ConvergentConnectCall(ErrEnds, ErrWeights)
    \/ DivergentConnectCall(ErrEnds, ErrWeights)
    \/ SetStatusCall({I(1), T(<<I(1)>>), T(<<I(1), I(2)>>)},
                     {<<V1, None>>, <<Bad, None>>, <<L(<<V1, V1, V1>>), None>>})
    \/ GetStatusCall({I(1), T(<<I(1)>>)}, {None, I(7), S("nokey")})
    \/ GetConnectionsCall({None, I(1)}, {None, I(2)})
    \/ IsSubnetInstanceCall({T(<<I(0)>>), T(<<I(1)>>)})
    \/ TogglingFunctionCall

SpecErrors == Init /\ [][NextErrors]_vars

(***************************************************************************)
(* Properties of the errors (SpecErrors).                                  *)
(***************************************************************************)
\* The interpreter has signalled a failure during the call, and the probe
\* for subnets is the function called.
Signalled == call.sig # <<>>
Probe == call.op = "_is_subnet_instance"

\* The error the interpreter signalled is the one raised, it was signalled
\* once and the command that failed is the last primitive of the call.
Verbatim == call.exc = call.sig[1]
NotRetried ==
    /\ Len(call.sig) = 1
    /\ call.log[Len(call.log)] = Prim("sr", call.sig[1].name)

\* C25 as stated: every function raises the failure the interpreter has
\* signalled as it is, and tries the command once.
C25_EngineErrorVerbatim ==
    Signalled => Verbatim /\ NotRetried

\* C25: no function tries a command again after the interpreter has
\* signalled a failure, and every function but _is_subnet_instance raises
\* that failure as it is; _is_subnet_instance takes the failure of
\* GetChildren for its answer and returns False.
C25_EngineErrorVerbatimButProbe ==
    Signalled
    => /\ NotRetried
       /\ ~Probe => Verbatim
       /\ Probe => call.exc = NoExc /\ call.ret = Bool(FALSE)

C25_Witness ==
    /\ call.op = "Connect"
    /\ Pre = T(<<I(1)>>) /\ Post = T(<<I(2)>>)
    /\ Len(netNodes) = 2 /\ netNodes[2].model = "voltmeter"
    /\ Signalled
    /\ call.exc = Exc("NESTError", "IllegalConnection", "/%s Connect", 0)

\* The command of a connecting function, the number of commands it runs,
\* of values it pushes for each and of connections each makes.
CommandOf(op) ==
    IF op = "Connect" THEN "/%s Connect"
    ELSE IF op = "ConvergentConnect" THEN "/%s ConvergentConnect"
    ELSE "/%s DivergentConnect"
CommandsDue == IF ConvergentCalled THEN PyLen(Post) ELSE PyLen(Pre)
Operands == IF ConnectCalled THEN Pushes ELSE FanStride - 1
PerCommand ==
    IF ConnectCalled THEN 1 ELSE IF ConvergentCalled THEN PyLen(Pre) ELSE PyLen(Post)

\* A connecting function whose command the interpreter has refused, and the
\* number of times the command has been run.
CommandFailed ==
    /\ ConnectCalled \/ ConvergentCalled \/ DivergentCalled
    /\ Signalled
    /\ call.sig[1].name = CommandOf(call.op)
CommandsRun ==
    Cardinality({i \in 1..Len(call.log) : call.log[i] = Prim("sr", CommandOf(call.op))})

\* The ends of the e-th connection of the c-th command.
SourceOf(c, e) == IF ConvergentCalled THEN Pre.v[e].v ELSE Pre.v[c].v
TargetOf(c, e) == IF DivergentCalled THEN Post.v[e].v ELSE Post.v[c].v

\* The first two values pushed for the c-th command, as they are on the
\* stack.
EndsPushed(c) ==
    IF ConnectCalled THEN <<Pre.v[c], Post.v[c]>>
    ELSE IF ConvergentCalled THEN <<ToSLI(Pre), Post.v[c]>>
    ELSE <<Pre.v[c], ToSLI(Post)>>

\* C26: when the interpreter refuses the k-th command of Connect,
\* ConvergentConnect or DivergentConnect, the connections of the k-1
\* commands before it are there, the refused command is the last primitive
\* of the call (nothing is run for the pairs that remain, nothing is
\* undone, nothing is popped but the count of the guard), and the values
\* pushed for it are on the stack above the values found at entry.
C26_NoRollback ==
    CommandFailed
    => /\ CommandsRun \in 1..CommandsDue
       /\ Len(netConns) >= call.conns0 + (CommandsRun - 1) * PerCommand
       /\ \A c \in 1..(CommandsRun - 1), e \in 1..PerCommand :
            /\ netConns[call.conns0 + (c - 1) * PerCommand + e].source = SourceOf(c, e)
            /\ netConns[call.conns0 + (c - 1) * PerCommand + e].target = TargetOf(c, e)
       /\ call.log[Len(call.log)] = Prim("sr", CommandOf(call.op))
       /\ Commands(call.log) \subseteq {CommandOf(call.op), "count"}
       /\ Issued(call.log, Prim("spp", "")) = IF call.dbg THEN 1 ELSE 0
       /\ call.after >= call.before + Operands
       /\ SubSeq(stack, call.before + 1, call.before + 2) = EndsPushed(CommandsRun)
       /\ call.exc = call.sig[1]

C26_Witness ==
    /\ CommandFailed
    /\ ConvergentCalled
    /\ Pre = T(<<I(1), I(2)>>) /\ Post = T(<<I(1), I(2)>>)
    /\ Weight = F(2) /\ Delay = F(3)
    /\ CommandsRun = 2
    /\ call.conns0 = 0 /\ Len(netConns) = 2
    /\ netConns[2].source = 2 /\ netConns[2].target = 1
    /\ call.after = call.before + 5

\* One of the six functions has raised an error the interpreter has not
\* signalled: an error of its arguments.
Checking ==
    {"SetStatus", "GetStatus", "GetConnections", "Connect", "ConvergentConnect",
     "DivergentConnect"}
ArgumentError ==
    /\ call.op \in Checking
    /\ call.exc # NoExc
    /\ ~Signalled

\* The primitives of the function itself: those of the call without the
\* count the guard runs and pops at entry when the debug flag is set.
BodyLog == IF call.dbg THEN SubSeq(call.log, 3, Len(call.log)) ELSE call.log

\* C27: a call of SetStatus, GetStatus, GetConnections, Connect,
\* ConvergentConnect or DivergentConnect that fails on its arguments (the
\* type of the targets or of the keys, the lengths of pre and post, params,
\* weight or delay that do not broadcast, one of params / weight and delay
\* without the other) raises a TypeError or a NESTError, has pushed and run
\* nothing and leaves the stack, the nodes, the connections and the
\* defaults as they were at its entry.
C27_Step ==
    ArgumentError'
    => /\ call'.exc.k \in {"TypeError", "NESTError"}
       /\ call'.ret = None
       /\ BodyLog' = <<>>
       /\ stack' = stack
       /\ netNodes' = netNodes /\ netConns' = netConns /\ defaults' = defaults

C27_ArgumentErrorsFirst == [][C27_Step]_vars

C27_Witness ==
    /\ ArgumentError
    /\ call.op = "GetStatus" /\ call.dbg
    /\ call.args = <<T(<<I(1)>>), I(7)>>
    /\ Len(netNodes) >= 1
    /\ call.exc = Exc("TypeError", "keys should be either a string or an iterable", "", 0)

\* The functions under the guard that call no other function under it, and
\* the number of times the depth has been counted during the call.
Guarded == Checking \cup {"TogglingFunction"}
Counts == Issued(call.log, Prim("sr", "count"))

\* C28: the guard takes the debug flag as it is at the entry of the call.
\* With the flag off then, the depth is never counted and no error of the
\* guard is raised, whatever the function does to the flag and the stack.
\* With the flag on, the depth is counted at entry, and once more exactly
\* when the function returns: the result is returned on a stack as deep as
\* at entry, the error of the guard is raised on any other.  When the
\* function raises, the depth is not counted again and the error raised is
\* that of the function: the one the interpreter has signalled, whatever
\* has been left on the stack.
C28_GuardDecidesAtEntry ==
    call.op \in Guarded
    => /\ ~call.dbg => Counts = 0 /\ ~ImbalanceRaised(call.exc)
       /\ call.dbg
          => /\ SubSeq(call.log, 1, 2) = <<Prim("sr", "count"), Prim("spp", "")>>
             /\ call.exc = NoExc => Counts = 2 /\ call.after = call.before
             /\ ImbalanceRaised(call.exc)
                => /\ Counts = 2
                   /\ call.exc = Imbalance(call.op, call.after - call.before)
                   /\ call.after # call.before
             /\ (call.exc # NoExc /\ ~ImbalanceRaised(call.exc)) => Counts = 1
       /\ Signalled => call.exc = call.sig[1]
       /\ call.op = "TogglingFunction"
          => /\ debug = call.args[1].v
             /\ call.after = call.before + call.args[2].v
             /\ call.exc = IF call.dbg /\ call.args[2].v # 0
                           THEN Imbalance("TogglingFunction", call.args[2].v) ELSE NoExc

C28_Witness ==
    /\ call.op = "TogglingFunction"
    /\ ~call.dbg /\ debug
    /\ call.after = call.before + 1
    /\ call.exc = NoExc /\ call.ret = S("result")

(***************************************************************************)
(* RandomConvergentConnect and RandomDivergentConnect with options.        *)
(***************************************************************************)
RandomEnds ==
    {<<T(<<I(1), I(2)>>), T(<<I(1)>>)>>, <<T(<<I(1)>>), T(<<I(1), I(2)>>)>>,
     <<T(<<I(1)>>), T(<<I(2)>>)>>}
RandomCounts == {I(1), I(2), F(1)}
RandomArgs ==
    {<<None, None>>, <<F(2), F(3)>>, <<F(2), None>>, <<L(<<F(2), F(4), F(4)>>), F(3)>>}
RandomOptions ==
    {None, D([allow_autapses |-> Bool(FALSE)]), D([allow_multapses |-> Bool(FALSE)]),
     D([nokey |-> Bool(TRUE)])}

NextRandom ==
    \/ Continue
    \/ SetDebugCall
    \/ CreateCall(NodeModels, {None})
    \/ RandomConvergentConnectCall(RandomEnds, RandomCounts, RandomArgs, RandomOptions)
    \/ RandomDivergentConnectCall(RandomEnds, RandomCounts, RandomArgs, RandomOptions)

SpecRandom == Init /\ [][NextRandom]_vars

\* A call of one of the two functions with options has returned or raised.
RandomCalledWithOptions == call.op \in OptionCommands /\ call.args[6].k # "none"

\* C29: RandomConvergentConnect and RandomDivergentConnect called with
\* options leave, on every exit (normal return, the error of a lone weight or
\* delay, a failure of the weight/delay broadcast, a failure of the connect
\* command), the options of the command as they were before the call.
C29_OptionsRestored ==
    RandomCalledWithOptions => netOptions[call.op] = call.opts0[call.op]

====
